---- MODULE Spec2Model ----
(***************************************************************************)
(* Pixshop editing session (App component, src/unnamed/part_004) as a      *)
(* state machine: the image history with undo/redo, the single isLoading   *)
(* gate over the asynchronous image-transform requests, the zoom/pan       *)
(* viewport, the point-edit hotspot, the crop region and the highlight     *)
(* mask.  One action per event handler; a handler's React state updates    *)
(* are batched, so one handler run (with the effects its render triggers)  *)
(* is one step.  An async handler is two steps: the part before the await  *)
(* (Start...) and the continuation after it (Resolve.../Reject...), which  *)
(* runs with the values its closure captured when the handler was called.  *)
(***************************************************************************)
EXTENDS Integers, Sequences, FiniteSets, TLC

\* ---------------------------------------------------------------- bounds
\* Number of File objects (uploads, edit results, crops) created in a run.
MaxVersions == 3
\* Number of zoom steps applied since the viewport was last reset.
MaxZoomOps == 1
\* Number of files the user adds to the collage list.
MaxCollage == 2
\* Number of zoom and pan steps since the viewport was last reset, in the
\* viewport and touch specifications.
MaxViewOps == 2

\* A nullable value is None or Some(v); error strings use NoError.
None == <<>>
Some(v) == <<v>>
Val(o) == o[1]
NoError == "null"

\* ------------------------------------------------------------- rationals
\* JavaScript numbers are modelled as exact rationals <<numerator, denominator>>
\* in lowest terms with a positive denominator.
RECURSIVE GCD(_, _)
GCD(a, b) == IF b = 0 THEN a ELSE GCD(b, a % b)

Abs(n) == IF n < 0 THEN -n ELSE n

Norm(n, d) ==
    LET s == IF d < 0 THEN -1 ELSE 1
        g == GCD(Abs(n), Abs(d))
    IN  <<(s * n) \div g, (s * d) \div g>>

R(n) == <<n, 1>>
RAdd(a, b) == Norm(a[1] * b[2] + b[1] * a[2], a[2] * b[2])
RSub(a, b) == Norm(a[1] * b[2] - b[1] * a[2], a[2] * b[2])
RMul(a, b) == Norm(a[1] * b[1], a[2] * b[2])
RDiv(a, b) == Norm(a[1] * b[2], a[2] * b[1])
RLe(a, b) == a[1] * b[2] <= b[1] * a[2]
RMin(a, b) == IF RLe(a, b) THEN a ELSE b
RMax(a, b) == IF RLe(a, b) THEN b ELSE a
\* Math.round: the nearest integer, halves rounded towards +infinity.
RRound(a) == (2 * a[1] + a[2]) \div (2 * a[2])

ZERO == R(0)
ONE == R(1)

\* ------------------------------------------------------------ input sets
Tabs == {"generate", "retouch", "editor", "text", "adjust", "filters", "crop",
         "collage", "cutout"}

\* Natural and client size of the displayed <img> element.
ImgDims == [naturalWidth |-> 8, naturalHeight |-> 9, clientWidth |-> 4, clientHeight |-> 3]

\* Click offsets inside the image's bounding rectangle (viewport pixels).
ClickPoints == {<<2, 1>>}
\* Cursor positions inside the image container, and wheel deltas.
MousePoints == {<<2, 1>>}
WheelDeltas == {-100}
\* Cursor positions, wheel deltas and touch positions of the viewport steps.
ViewMousePoints == {<<2, 1>>, <<3, 1>>}
ViewWheelDeltas == {-1000, 100}
TouchPoints == {<<0, 0>>, <<3, 4>>, <<6, 8>>}
\* Click offsets of the point-edit steps: inside the image, on its right and
\* bottom edge, and one pixel inside the edge of the image zoomed to scale 5.
EdgeClickPoints == {<<1, 1>>, <<2, 1>>, <<4, 3>>, <<19, 14>>}
\* Completed crop rectangles delivered by the crop widget.
CropRegions == {[x |-> 1, y |-> 1, width |-> 2, height |-> 1]}
\* Crop rectangles of the crop-export steps.
ExportCropRegions == {[x |-> 1, y |-> 1, width |-> 2, height |-> 1],
                      [x |-> 0, y |-> 0, width |-> 3, height |-> 2],
                      [x |-> 1, y |-> 0, width |-> 1, height |-> 3]}
\* Values of window.devicePixelRatio.
DevicePixelRatios == {ONE, R(2), <<3, 2>>}
\* Values typed in the retouch prompt box.
Prompts == {"", "p"}
\* Cursor positions of the brush steps and brush sizes of the size slider.
BrushPoints == {<<1, 1>>, <<2, 1>>, <<3, 2>>}
BrushSizes == {2, 40}

\* Continuations of the async handlers: handleGenerate also clears the hotspot,
\* handleCreateCollage also switches tab and empties the collage list,
\* handleCreateCutoutFromHighlight also clears the mask; the filter, adjustment,
\* auto-enhance, cutout, manual-edit and text handlers share one shape ("plain").
RequestKinds == {"generate", "collage", "cutoutHighlight", "plain"}

\* ----------------------------------------------------------------- state
VARIABLES
    history,              \* useState<File[]>: sequence of File identities
    historyIndex,         \* useState<number>
    nextId,               \* identity of the next File object created
    isLoading,            \* useState<boolean>
    error,                \* useState<string|null>: None or the failing handler
    editHotspot,          \* None or <<x, y>> in native pixels
    displayHotspot,       \* None or <<x, y>> in element pixels (rationals)
    activeTab,
    prompt,
    completedCrop,        \* None or a crop rectangle
    scale,                \* rational
    translation,          \* <<x, y>> of rationals
    zoomOps,              \* viewport mutations since the last resetZoom
    collageImages,        \* number of files in the collage list
    isOnline,
    isTutorialActive,
    tutorialStepIndex,
    isHighlightingActive,
    cutoutMode,           \* CutoutPanel's local mode state
    highlighterMask,      \* None or the exported set of painted pixels
    maskCanvas,           \* painted pixels of the mask canvas
    isDrawingHighlight,
    lastHighlightPoint,   \* None or a canvas point
    hasDraggedHighlight,
    highlighterBrushMode,
    highlighterBrushSize,
    isDragging,
    panStart,
    hasPanned,
    pointer,              \* cursor position of the last mouse event
    pointerDown,          \* a mouse button or a finger is held down
    touches,              \* positions of the active touch points (e.touches)
    initialPinchDistance, \* rational; 0 when no pinch is under way
    cropCanvas,           \* the export canvas made by the last step (None if it made none)
    pending,              \* requests and image loads in flight, each with the values its closure captured
    lastOp                \* the handler (and branch) that ran in the last step

histVars == <<history, historyIndex, nextId>>
hotspotVars == <<editHotspot, displayHotspot>>
viewVars == <<scale, translation, zoomOps>>
dragVars == <<isDragging, panStart, hasPanned, pointer, pointerDown, touches,
              initialPinchDistance>>
tutorialVars == <<isTutorialActive, tutorialStepIndex>>
maskVars == <<isHighlightingActive, cutoutMode, highlighterMask, maskCanvas,
              isDrawingHighlight, lastHighlightPoint, hasDraggedHighlight,
              highlighterBrushMode, highlighterBrushSize>>
vars == <<history, historyIndex, nextId, isLoading, error, editHotspot,
          displayHotspot, activeTab, prompt, completedCrop, scale, translation,
          zoomOps, collageImages, isOnline, isTutorialActive, tutorialStepIndex,
          isHighlightingActive, cutoutMode, highlighterMask, maskCanvas,
          isDrawingHighlight, lastHighlightPoint, hasDraggedHighlight,
          highlighterBrushMode, highlighterBrushSize, isDragging, panStart,
          hasPanned, pointer, pointerDown, touches, initialPinchDistance,
          cropCanvas, pending, lastOp>>

\* ------------------------------------------------------- derived values
currentImage == IF historyIndex >= 0 /\ historyIndex < Len(history)
                THEN Some(history[historyIndex + 1]) ELSE None
originalImage == IF Len(history) > 0 THEN Some(history[1]) ELSE None

canUndo_Mutant == historyIndex >= 0

canUndo == historyIndex > 0

canRedo_Mutant == historyIndex < Len(history)

canRedo == historyIndex < Len(history) - 1

\* renderContent shows the editor (image, toolbar, tabs, panels) only when an
\* image is loaded and no error is displayed.
EditorShown == currentImage # None /\ error = NoError

Init ==
    /\ history = <<>>
    /\ historyIndex = -1
    /\ nextId = 0
    /\ isLoading = FALSE
    /\ error = NoError
    /\ editHotspot = None
    /\ displayHotspot = None
    /\ activeTab = "retouch"
    /\ prompt = ""
    /\ completedCrop = None
    /\ scale = ONE
    /\ translation = <<ZERO, ZERO>>
    /\ zoomOps = 0
    /\ collageImages = 0
    /\ isOnline = TRUE
    /\ isTutorialActive = FALSE
    /\ tutorialStepIndex = 0
    /\ isHighlightingActive = FALSE
    /\ cutoutMode = "manual"
    /\ highlighterMask = None
    /\ maskCanvas = {}
    /\ isDrawingHighlight = FALSE
    /\ lastHighlightPoint = None
    /\ hasDraggedHighlight = FALSE
    /\ highlighterBrushMode = "add"
    /\ highlighterBrushSize = 40
    /\ isDragging = FALSE
    /\ panStart = <<ZERO, ZERO>>
    /\ hasPanned = FALSE
    /\ pointer = <<2, 1>>
    /\ pointerDown = FALSE
    /\ touches = <<>>
    /\ initialPinchDistance = ZERO
    /\ cropCanvas = None
    /\ pending = {}
    /\ lastOp = "init"

drawVars == <<isDrawingHighlight, lastHighlightPoint, hasDraggedHighlight,
              highlighterBrushSize>>

\* --------------------------------------------------- effects after render
\* CutoutPanel is rendered by renderContent only in the cutout tab.
CutoutMounted(img, err, tab) == img # None /\ err = NoError /\ tab = "cutout"

\* The resizeCanvas effect: assigning canvas.width empties the canvas, then the
\* saved mask (if any) is drawn back (img.onload taken in the same step).
ResizeCanvas(mask) == IF mask # None THEN Val(mask) ELSE {}

\* CutoutPanel's mount/unmount effect (onToggleHighlight, handleBrushModeChange)
\* and the canvas effect, for a render with image img2, error err2, tab tab2.
PanelEffects(img2, err2, tab2, imgChanged, clearMask) ==
    LET before == CutoutMounted(currentImage, error, activeTab)
        after == CutoutMounted(img2, err2, tab2)
    IN  /\ cutoutMode' = IF after /\ ~before THEN "manual" ELSE cutoutMode
        /\ isHighlightingActive' = (after /\ cutoutMode' = "manual")
        /\ highlighterBrushMode' = IF after /\ ~before THEN "add"
                                    ELSE highlighterBrushMode
        /\ highlighterMask' = IF clearMask \/ (before /\ ~after) THEN None
                              ELSE highlighterMask
        /\ maskCanvas' = IF clearMask \/ ~isHighlightingActive' THEN {}
                         ELSE IF imgChanged THEN ResizeCanvas(highlighterMask')
                         ELSE maskCanvas

\* Effect "initialize collage images when switching to collage tab".
CollageEffect(tab2, n) == IF tab2 = "collage" /\ n = 0 THEN 1 ELSE n

\* ---------------------------------------------------------------- upload
resetZoom_Mutant ==
    /\ scale' = ONE
    /\ UNCHANGED <<translation, zoomOps>>

resetZoom ==
    /\ scale' = ONE
    /\ translation' = <<ZERO, ZERO>>
    /\ zoomOps' = 0

handleImageUpload(file) ==
    /\ error' = NoError
    /\ history' = <<file>>
    /\ historyIndex' = 0
    /\ editHotspot' = None
    /\ displayHotspot' = None
    /\ activeTab' = "retouch"
    /\ completedCrop' = None
    /\ collageImages' = 0
    /\ resetZoom
    /\ PanelEffects(Some(file), NoError, "retouch", TRUE, FALSE)

\* The Header's upload button and file input are always available.
Upload ==
    /\ nextId < MaxVersions
    /\ nextId' = nextId + 1
    /\ handleImageUpload(nextId + 1)
    /\ lastOp' = "upload"
    /\ UNCHANGED <<isLoading, prompt, isOnline, pending, tutorialVars, drawVars,
                   dragVars>>
    /\ cropCanvas' = None

startTutorial ==
    /\ nextId < MaxVersions
    /\ nextId' = nextId + 1
    /\ handleImageUpload(nextId + 1)
    /\ tutorialStepIndex' = 0
    /\ isTutorialActive' = TRUE
    /\ lastOp' = "startTutorial"
    /\ UNCHANGED <<isLoading, prompt, isOnline, pending, drawVars, dragVars>>
    /\ cropCanvas' = None

skipTutorial ==
    /\ isTutorialActive
    /\ isTutorialActive' = FALSE
    /\ tutorialStepIndex' = 0
    /\ lastOp' = "skipTutorial"
    /\ UNCHANGED <<histVars, isLoading, error, hotspotVars, activeTab, prompt,
                   completedCrop, viewVars, collageImages, isOnline, maskVars,
                   dragVars, pending>>
    /\ cropCanvas' = None

\* ------------------------------------------------------------------ tabs
\* A tab button (shown with the editor) or a search query naming a tab.
SetActiveTab(tab) ==
    /\ tab # activeTab
    /\ activeTab' = tab
    /\ collageImages' = IF currentImage # None THEN CollageEffect(tab, collageImages)
                        ELSE collageImages
    /\ PanelEffects(currentImage, error, tab, FALSE, FALSE)
    /\ lastOp' = "setActiveTab"
    /\ UNCHANGED <<histVars, isLoading, error, hotspotVars, prompt, completedCrop,
                   viewVars, isOnline, tutorialVars, drawVars, dragVars, pending>>
    /\ cropCanvas' = None

\* The tab each step of the tour asks for ("" for a step without a tab).
tutorialSteps == <<"", "retouch", "retouch", "editor", "text", "adjust",
                   "filters", "crop", "", "", "">>

\* The Tutorial overlay is rendered with the editor; tutorialSteps[index] must
\* exist for it (and for the tab effect) to run.
TutorialShown ==
    /\ isTutorialActive
    /\ EditorShown
    /\ tutorialStepIndex < Len(tutorialSteps)

\* setTutorialStepIndex(i) followed by the effect that opens the step's tab.
TutorialStepTo(i) ==
    LET tab2 == IF i < Len(tutorialSteps) /\ tutorialSteps[i + 1] # ""
                THEN tutorialSteps[i + 1] ELSE activeTab
    IN  /\ tutorialStepIndex' = i
        /\ activeTab' = tab2
        /\ collageImages' = CollageEffect(tab2, collageImages)
        /\ PanelEffects(currentImage, error, tab2, FALSE, FALSE)
        /\ UNCHANGED <<histVars, isLoading, error, hotspotVars, prompt,
                       completedCrop, viewVars, isOnline, isTutorialActive,
                       drawVars, dragVars, pending>>
        /\ cropCanvas' = None

\* "Next" / "Finish" of the overlay.
handleNextStep ==
    /\ TutorialShown
    /\ IF tutorialStepIndex < Len(tutorialSteps) - 1
       THEN TutorialStepTo(tutorialStepIndex + 1) /\ lastOp' = "nextStep"
       ELSE skipTutorial

\* "Previous" of the overlay, rendered when currentStep > 1; its update is
\* setTutorialStepIndex(prev => prev + 1).
handlePrevStep ==
    /\ TutorialShown
    /\ tutorialStepIndex + 1 > 1
    /\ tutorialStepIndex > 0
    /\ TutorialStepTo(tutorialStepIndex + 1)
    /\ lastOp' = "prevStep"

\* "Try Again" on the error panel.
ClearError ==
    /\ currentImage # None
    /\ error # NoError
    /\ error' = NoError
    /\ PanelEffects(currentImage, NoError, activeTab, FALSE, FALSE)
    /\ lastOp' = "clearError"
    /\ UNCHANGED <<histVars, isLoading, hotspotVars, activeTab, prompt, completedCrop,
                   viewVars, collageImages, isOnline, tutorialVars, drawVars,
                   dragVars, pending>>
    /\ cropCanvas' = None

SetOnline(b) ==
    /\ isOnline # b
    /\ isOnline' = b
    /\ lastOp' = "setOnline"
    /\ UNCHANGED <<histVars, isLoading, error, hotspotVars, activeTab, prompt,
                   completedCrop, viewVars, collageImages, tutorialVars, maskVars,
                   dragVars, pending>>
    /\ cropCanvas' = None

\* --------------------------------------------------------------- history
\* newHistory of addImageToHistory, from the history and index of its closure.
NewHistory(h, i, file) == Append(SubSeq(h, 1, i + 1), file)

NewIndex_Mutant(newHistory) == Len(newHistory)

NewIndex(newHistory) == Len(newHistory) - 1

\* addImageToHistory, called with the history and historyIndex it closed over.
addImageToHistory(h, i, file) ==
    /\ history' = NewHistory(h, i, file)
    /\ historyIndex' = NewIndex(history')
    /\ completedCrop' = None
    /\ resetZoom

\* Buttons of the history toolbar.
UndoEnabled == canUndo /\ ~isLoading
RedoEnabled == canRedo /\ ~isLoading
ResetEnabled == historyIndex # 0 /\ ~isLoading

UndoIndex_Mutant == historyIndex - 2

UndoIndex == historyIndex - 1

RedoIndex == historyIndex + 1

\* handleUndo.  The handler is run whenever the toolbar is usable; with the
\* button disabled by !canUndo the handler's own test makes the run a no-op.
handleUndo ==
    /\ EditorShown
    /\ ~isLoading
    /\ IF canUndo
       THEN /\ historyIndex' = UndoIndex
            /\ editHotspot' = None
            /\ displayHotspot' = None
            /\ resetZoom
            /\ PanelEffects(currentImage, error, activeTab, TRUE, FALSE)
            /\ lastOp' = "undo"
       ELSE /\ UNCHANGED <<historyIndex, hotspotVars, viewVars, isHighlightingActive,
                           cutoutMode, highlighterMask, maskCanvas,
                           highlighterBrushMode>>
            /\ lastOp' = "undo_noop"
    /\ UNCHANGED <<history, nextId, isLoading, error, activeTab, prompt, completedCrop,
                   collageImages, isOnline, tutorialVars, drawVars, dragVars, pending>>
    /\ cropCanvas' = None

handleRedo ==
    /\ EditorShown
    /\ ~isLoading
    /\ IF canRedo
       THEN /\ historyIndex' = RedoIndex
            /\ editHotspot' = None
            /\ displayHotspot' = None
            /\ resetZoom
            /\ PanelEffects(currentImage, error, activeTab, TRUE, FALSE)
            /\ lastOp' = "redo"
       ELSE /\ UNCHANGED <<historyIndex, hotspotVars, viewVars, isHighlightingActive,
                           cutoutMode, highlighterMask, maskCanvas,
                           highlighterBrushMode>>
            /\ lastOp' = "redo_noop"
    /\ UNCHANGED <<history, nextId, isLoading, error, activeTab, prompt, completedCrop,
                   collageImages, isOnline, tutorialVars, drawVars, dragVars, pending>>
    /\ cropCanvas' = None

ResetIndex_Mutant == Len(history) - 1

ResetIndex == 0

handleReset ==
    /\ EditorShown
    /\ ResetEnabled
    /\ Len(history) > 0
    /\ historyIndex' = ResetIndex
    /\ error' = NoError
    /\ editHotspot' = None
    /\ displayHotspot' = None
    /\ collageImages' = CollageEffect(activeTab, 0)
    /\ resetZoom
    /\ PanelEffects(currentImage, NoError, activeTab, TRUE, FALSE)
    /\ lastOp' = "reset"
    /\ UNCHANGED <<history, nextId, isLoading, activeTab, prompt, completedCrop,
                   isOnline, tutorialVars, drawVars, dragVars, pending>>
    /\ cropCanvas' = None

\* ------------------------------------------------------------------ crop
\* ReactCrop's onComplete while the crop tab shows the image.
SetCompletedCrop(c) ==
    /\ EditorShown
    /\ activeTab = "crop"
    /\ ~isLoading
    /\ completedCrop' = Some(c)
    /\ lastOp' = "setCompletedCrop"
    /\ UNCHANGED <<histVars, isLoading, error, hotspotVars, activeTab, prompt,
                   viewVars, collageImages, isOnline, tutorialVars, maskVars,
                   dragVars, pending>>
    /\ cropCanvas' = None

ApplyCropEnabled == ~isLoading /\ completedCrop # None

\* window.devicePixelRatio || 1
PixelRatio(dpr) == IF dpr = ZERO THEN ONE ELSE dpr

\* Assigning canvas.width / canvas.height converts the number to an unsigned
\* integer, dropping the fraction.
CanvasSize(a) == a[1] \div a[2]

CropScaleX_Mutant == Norm(ImgDims.naturalHeight, ImgDims.clientHeight)

\* scaleX and scaleY of handleApplyCrop (image.width and image.height are the
\* displayed size of the element).
CropScaleX == Norm(ImgDims.naturalWidth, ImgDims.clientWidth)
CropScaleY == Norm(ImgDims.naturalHeight, ImgDims.clientHeight)

\* The export canvas with the arguments of its drawImage call.
CropExport(c, dpr) ==
    [width |-> CanvasSize(RMul(R(c.width), PixelRatio(dpr))),
     height |-> CanvasSize(RMul(R(c.height), PixelRatio(dpr))),
     pixelRatio |-> PixelRatio(dpr),
     sx |-> RMul(R(c.x), CropScaleX),
     sy |-> RMul(R(c.y), CropScaleY),
     sWidth |-> RMul(R(c.width), CropScaleX),
     sHeight |-> RMul(R(c.height), CropScaleY),
     dWidth |-> c.width,
     dHeight |-> c.height,
     crop |-> c]

handleApplyCrop(dpr) ==
    /\ EditorShown
    /\ activeTab = "crop"
    /\ ApplyCropEnabled
    /\ nextId < MaxVersions
    /\ nextId' = nextId + 1
    /\ cropCanvas' = Some(CropExport(Val(completedCrop), dpr))
    /\ addImageToHistory(history, historyIndex, nextId + 1)
    /\ PanelEffects(Some(nextId + 1), error, activeTab, TRUE, FALSE)
    /\ lastOp' = "crop"
    /\ UNCHANGED <<isLoading, error, hotspotVars, activeTab, prompt, collageImages,
                   isOnline, tutorialVars, drawVars, dragVars, pending>>

\* -------------------------------------------------------------- requests
\* Images the default collage layout ('2-vertical') requires.
CollageRequired == 2

\* disabled= of the controls that trigger an image-transform request.
\* prompt.trim() on the texts used: leading and trailing blanks are removed.
Trim(text) ==
    CASE text = " " -> ""
      [] text = " p " -> "p"
      [] OTHER -> text

GenerateEnabled == ~isLoading /\ Trim(prompt) # "" /\ editHotspot # None /\ isOnline
FilterEnabled == ~isLoading /\ isOnline
AdjustmentEnabled == ~isLoading /\ isOnline
AutoEnhanceEnabled_Mutant == isOnline

AutoEnhanceEnabled == ~isLoading /\ isOnline
CollageEnabled == ~isLoading /\ collageImages = CollageRequired /\ isOnline
CutoutEnabled == ~isLoading /\ isOnline
ManualEditEnabled == ~isLoading /\ isOnline
TextEnabled == ~isLoading /\ isOnline
CutoutFromHighlightEnabled == ~isLoading /\ isOnline /\ highlighterMask # None

\* Pixels of a raster of the image's natural size.
NativePixels == (0 .. ImgDims.naturalWidth - 1) \X (0 .. ImgDims.naturalHeight - 1)

scaleCanvasToImage_Mutant(mask) ==
    [width |-> ImgDims.clientWidth, height |-> ImgDims.clientHeight, pixels |-> mask]

\* scaleCanvasToImage: the mask (a raster of the canvas's size) drawn over the
\* whole of a canvas of the image's natural size; a pixel of the result is
\* painted when the mask pixel it is taken from is painted.
scaleCanvasToImage(mask) ==
    [width |-> ImgDims.naturalWidth,
     height |-> ImgDims.naturalHeight,
     pixels |-> {q \in NativePixels :
                    <<(q[1] * ImgDims.clientWidth) \div ImgDims.naturalWidth,
                      (q[2] * ImgDims.clientHeight) \div ImgDims.naturalHeight>> \in mask}]

\* What the continuation of an async handler still sees after its await: the
\* values of the render in which the handler was called.  The highlight cutout
\* sends finalMask, its mask scaled to the image, to the service.
Closure(kind) ==
    [kind |-> kind, history |-> history, historyIndex |-> historyIndex,
     image |-> currentImage,
     highlighterMask |-> IF kind = "cutoutHighlight" THEN highlighterMask ELSE None,
     finalMask |-> IF kind = "cutoutHighlight" /\ highlighterMask # None
                   THEN Some(scaleCanvasToImage(Val(highlighterMask))) ELSE None]

\* The part of an async handler before its await.
StartRequest(kind) ==
    /\ EditorShown
    /\ isLoading' = TRUE
    /\ error' = NoError
    /\ pending' = pending \cup {Closure(kind)}
    /\ lastOp' = "start"
    /\ UNCHANGED <<histVars, hotspotVars, activeTab, prompt, completedCrop, viewVars,
                   collageImages, isOnline, tutorialVars, maskVars, dragVars>>
    /\ cropCanvas' = None

GenerateRefusal_Mutant ==
    IF currentImage = None THEN "No image loaded to edit."
    ELSE IF Trim(prompt) = "" THEN "Please enter a description for your edit."
    ELSE NoError

\* The early returns of handleGenerate: the message it sets, or NoError.
GenerateRefusal ==
    IF currentImage = None THEN "No image loaded to edit."
    ELSE IF Trim(prompt) = "" THEN "Please enter a description for your edit."
    ELSE IF editHotspot = None
         THEN "Please click on the image to select an area to edit."
    ELSE NoError

\* The body of handleGenerate up to its await.
generateEditedImageCall ==
    IF GenerateRefusal # NoError
    THEN /\ error' = GenerateRefusal
         /\ PanelEffects(currentImage, error', activeTab, FALSE, FALSE)
         /\ lastOp' = "generateRefused"
         /\ UNCHANGED <<histVars, isLoading, hotspotVars, activeTab, prompt,
                        completedCrop, viewVars, collageImages, isOnline,
                        tutorialVars, drawVars, dragVars, pending>>
         /\ cropCanvas' = None
    ELSE StartRequest("generate")

\* The "Apply" button of the retouch tab.
handleGenerate ==
    /\ activeTab = "retouch"
    /\ EditorShown
    /\ GenerateEnabled
    /\ generateEditedImageCall

\* handleGenerate run whatever the button's disabled attribute says.
handleGenerateUnguarded ==
    /\ activeTab = "retouch"
    /\ ~isLoading
    /\ generateEditedImageCall

handleApplyFilter ==
    /\ activeTab = "filters"
    /\ FilterEnabled
    /\ StartRequest("plain")

handleApplyAdjustment ==
    /\ activeTab = "adjust"
    /\ AdjustmentEnabled
    /\ StartRequest("plain")

handleAutoEnhance ==
    /\ AutoEnhanceEnabled
    /\ StartRequest("plain")

handleCreateCollage ==
    /\ activeTab = "collage"
    /\ CollageEnabled
    /\ collageImages >= 2
    /\ StartRequest("collage")

handleCreateCutout ==
    /\ activeTab = "cutout"
    /\ cutoutMode \in {"prompt", "auto"}
    /\ CutoutEnabled
    /\ StartRequest("plain")

handleApplyManualEdit ==
    /\ activeTab = "editor"
    /\ ManualEditEnabled
    /\ StartRequest("plain")

handleApplyText ==
    /\ activeTab = "text"
    /\ TextEnabled
    /\ StartRequest("plain")

handleCreateCutoutFromHighlight ==
    /\ activeTab = "cutout"
    /\ cutoutMode = "manual"
    /\ CutoutFromHighlightEnabled
    /\ StartRequest("cutoutHighlight")

Finally_Mutant == UNCHANGED isLoading

\* The finally block of every async handler.
Finally == isLoading' = FALSE

\* The try block after the await when the service call succeeded and the data
\* URL decoded, followed by finally.
ResolveRequest(r) ==
    /\ r \in pending
    /\ r.kind # "redraw"
    /\ nextId < MaxVersions
    /\ nextId' = nextId + 1
    /\ pending' = pending \ {r}
    /\ addImageToHistory(r.history, r.historyIndex, nextId + 1)
    /\ IF r.kind = "generate"
       THEN editHotspot' = None /\ displayHotspot' = None
       ELSE UNCHANGED hotspotVars
    /\ IF r.kind = "collage"
       THEN activeTab' = "retouch" /\ collageImages' = 0
       ELSE UNCHANGED <<activeTab, collageImages>>
    /\ PanelEffects(Some(nextId + 1), error, activeTab', TRUE,
                    r.kind = "cutoutHighlight")
    /\ Finally
    /\ lastOp' = "resolve"
    /\ UNCHANGED <<error, prompt, isOnline, tutorialVars, drawVars, dragVars>>
    /\ cropCanvas' = None

\* The message setError receives in a catch block.
RejectError_Mutant == NoError

RejectError == "failed"

\* The catch block (the call rejected or the result could not be decoded),
\* followed by finally.
RejectRequest(r) ==
    /\ r \in pending
    /\ r.kind # "redraw"
    /\ pending' = pending \ {r}
    /\ error' = RejectError
    /\ Finally
    /\ PanelEffects(currentImage, error', activeTab, FALSE, FALSE)
    /\ lastOp' = "reject"
    /\ UNCHANGED <<histVars, hotspotVars, activeTab, prompt, completedCrop, viewVars,
                   collageImages, isOnline, tutorialVars, drawVars, dragVars>>
    /\ cropCanvas' = None

\* -------------------------------------------------------------- viewport
MinScale == <<1, 2>>
MaxScale == R(5)
ZoomSpeed == <<1, 200>>
ZoomStep == <<6, 5>>

Clamp_Mutant(x) == RMax(MinScale, x)

Clamp(x) == RMax(MinScale, RMin(MaxScale, x))

AnchorTranslation_Mutant(anchor, t, newScale, oldScale) ==
    RSub(anchor, RMul(RSub(anchor, t), newScale))

\* newTranslation of the zoom handlers: keeps the anchor fixed on screen.
AnchorTranslation(anchor, t, newScale, oldScale) ==
    RSub(anchor, RDiv(RMul(RSub(anchor, t), newScale), oldScale))

ZoomTo_Mutant(newScale, ax, ay) ==
    /\ scale' = newScale
    /\ translation' = <<AnchorTranslation(ax, ZERO, newScale, scale),
                        AnchorTranslation(ay, ZERO, newScale, scale)>>
    /\ zoomOps' = zoomOps + 1

ZoomTo(newScale, ax, ay) ==
    /\ scale' = newScale
    /\ translation' = <<AnchorTranslation(ax, translation[1], newScale, scale),
                        AnchorTranslation(ay, translation[2], newScale, scale)>>
    /\ zoomOps' = zoomOps + 1

\* Pointer handlers of the image container return at once in these modes.
PanZoomInactive_Mutant == activeTab = "collage" \/ isTutorialActive

PanZoomInactive == activeTab = "collage" \/ isTutorialActive \/ isHighlightingActive

\* Size of the image container (getBoundingClientRect of imageContainerRef).
ContainerSize == [width |-> 4, height |-> 3]

handleWheel(deltaY, mouse) ==
    /\ EditorShown
    /\ ~PanZoomInactive
    /\ mouse = pointer
    /\ ZoomTo(Clamp(RSub(scale, RMul(R(deltaY), ZoomSpeed))), R(mouse[1]), R(mouse[2]))
    /\ lastOp' = "wheel"
    /\ UNCHANGED <<histVars, isLoading, error, hotspotVars, activeTab, prompt,
                   completedCrop, collageImages, isOnline, tutorialVars, maskVars,
                   dragVars, pending>>
    /\ cropCanvas' = None

\* The zoom buttons lie inside the image container, under the loading overlay:
\* the mouseup or touchend of the press that clicks one of them has run
\* handleMouseUp or handleTouchEnd before the click handler runs.
handleZoomIn ==
    /\ EditorShown
    /\ ~isLoading
    /\ ~isDragging
    /\ ZoomTo(RMin(MaxScale, RMul(scale, ZoomStep)),
              Norm(ContainerSize.width, 2), Norm(ContainerSize.height, 2))
    /\ lastOp' = "zoomIn"
    /\ UNCHANGED <<histVars, isLoading, error, hotspotVars, activeTab, prompt,
                   completedCrop, collageImages, isOnline, tutorialVars, maskVars,
                   dragVars, pending>>
    /\ cropCanvas' = None

handleZoomOut ==
    /\ EditorShown
    /\ ~isLoading
    /\ ~isDragging
    /\ ZoomTo(RMax(MinScale, RDiv(scale, ZoomStep)),
              Norm(ContainerSize.width, 2), Norm(ContainerSize.height, 2))
    /\ lastOp' = "zoomOut"
    /\ UNCHANGED <<histVars, isLoading, error, hotspotVars, activeTab, prompt,
                   completedCrop, collageImages, isOnline, tutorialVars, maskVars,
                   dragVars, pending>>
    /\ cropCanvas' = None

\* The "Reset zoom" button of ZoomControls.
ResetZoomClick ==
    /\ EditorShown
    /\ ~isLoading
    /\ ~isDragging
    /\ zoomOps > 0
    /\ resetZoom
    /\ lastOp' = "resetZoom"
    /\ UNCHANGED <<histVars, isLoading, error, hotspotVars, activeTab, prompt,
                   completedCrop, collageImages, isOnline, tutorialVars, maskVars,
                   dragVars, pending>>
    /\ cropCanvas' = None

\* translation of a pan: the pointer position minus panStart.
PanTo(p) == <<RSub(R(p[1]), panStart[1]), RSub(R(p[2]), panStart[2])>>

\* A press of the primary button at the cursor position.
handleMouseDown(mouse) ==
    /\ EditorShown
    /\ ~PanZoomInactive
    /\ ~isDragging
    /\ mouse = pointer
    /\ isDragging' = TRUE
    /\ hasPanned' = FALSE
    /\ panStart' = <<RSub(R(mouse[1]), translation[1]), RSub(R(mouse[2]), translation[2])>>
    /\ pointerDown' = TRUE
    /\ lastOp' = "mouseDown"
    /\ UNCHANGED <<viewVars, pointer, touches, initialPinchDistance>>
    /\ UNCHANGED <<histVars, isLoading, error, hotspotVars, activeTab, prompt,
                   completedCrop, collageImages, isOnline, tutorialVars, maskVars,
                   pending>>
    /\ cropCanvas' = None

\* The cursor moves to another position over the container.
handleMouseMove(mouse) ==
    /\ EditorShown
    /\ mouse # pointer
    /\ pointer' = mouse
    /\ IF ~isDragging \/ PanZoomInactive
       THEN /\ UNCHANGED <<hasPanned, translation, zoomOps>>
            /\ lastOp' = "mouseMove_noop"
       ELSE /\ hasPanned' = TRUE
            /\ translation' = PanTo(mouse)
            /\ zoomOps' = zoomOps + 1
            /\ lastOp' = "mouseMove"
    /\ UNCHANGED <<scale, isDragging, panStart, pointerDown, touches,
                   initialPinchDistance>>
    /\ UNCHANGED <<histVars, isLoading, error, hotspotVars, activeTab, prompt,
                   completedCrop, collageImages, isOnline, tutorialVars, maskVars,
                   pending>>
    /\ cropCanvas' = None

\* onMouseUp and onMouseLeave of the image container.
handleMouseUp ==
    /\ EditorShown
    /\ isDragging
    /\ isDragging' = FALSE
    /\ pointerDown' = FALSE
    /\ lastOp' = "mouseUp"
    /\ UNCHANGED <<viewVars, panStart, hasPanned, pointer, touches, initialPinchDistance>>
    /\ UNCHANGED <<histVars, isLoading, error, hotspotVars, activeTab, prompt,
                   completedCrop, collageImages, isOnline, tutorialVars, maskVars,
                   pending>>
    /\ cropCanvas' = None

\* ----------------------------------------------------------------- touch
\* Math.sqrt of a squared distance (the touch positions used are at integer
\* distances from one another).
Sqrt(n) == CHOOSE r \in 0 .. n : r * r = n

PinchDistance(ts) ==
    LET dx == ts[1][1] - ts[2][1]
        dy == ts[1][2] - ts[2][2]
    IN  R(Sqrt(dx * dx + dy * dy))

\* touchCenterX, touchCenterY: the midpoint of the two touches.
TouchCenter(ts) == <<Norm(ts[1][1] + ts[2][1], 2), Norm(ts[1][2] + ts[2][2], 2)>>

\* A finger is put down at p; e.touches lists the touches now active.
handleTouchStart(p) ==
    /\ EditorShown
    /\ Len(touches) < 2
    /\ \A k \in 1 .. Len(touches) : touches[k] # p
    /\ touches' = Append(touches, p)
    /\ pointerDown' = TRUE
    /\ IF PanZoomInactive
       THEN /\ UNCHANGED <<isDragging, panStart, hasPanned, initialPinchDistance>>
            /\ lastOp' = "touchStart_noop"
       ELSE /\ hasPanned' = FALSE
            /\ IF Len(touches') = 1
               THEN /\ isDragging' = TRUE
                    /\ panStart' = <<RSub(R(p[1]), translation[1]),
                                     RSub(R(p[2]), translation[2])>>
                    /\ UNCHANGED initialPinchDistance
               ELSE /\ isDragging' = FALSE
                    /\ initialPinchDistance' = PinchDistance(touches')
                    /\ UNCHANGED panStart
            /\ lastOp' = "touchStart"
    /\ UNCHANGED <<viewVars, pointer>>
    /\ UNCHANGED <<histVars, isLoading, error, hotspotVars, activeTab, prompt,
                   completedCrop, collageImages, isOnline, tutorialVars, maskVars,
                   pending>>
    /\ cropCanvas' = None

NextPinchReference_Mutant(currentPinchDistance) == initialPinchDistance

\* initialPinchDistance.current after a pinch move: the distance just measured.
NextPinchReference(currentPinchDistance) == currentPinchDistance

\* The active touches move to the positions ts.
handleTouchMove(ts) ==
    /\ EditorShown
    /\ Len(ts) = Len(touches)
    /\ ts # touches
    /\ touches' = ts
    /\ IF ~PanZoomInactive /\ Len(ts) = 1 /\ isDragging
       THEN /\ hasPanned' = TRUE
            /\ translation' = PanTo(ts[1])
            /\ zoomOps' = zoomOps + 1
            /\ UNCHANGED <<scale, initialPinchDistance>>
            /\ lastOp' = "touchPan"
       ELSE IF ~PanZoomInactive /\ Len(ts) = 2 /\ ~RLe(initialPinchDistance, ZERO)
       THEN /\ hasPanned' = TRUE
            /\ LET currentPinchDistance == PinchDistance(ts)
                   scaleFactor == RDiv(currentPinchDistance, initialPinchDistance)
                   center == TouchCenter(ts)
               IN  /\ ZoomTo(Clamp(RMul(scale, scaleFactor)), center[1], center[2])
                   /\ initialPinchDistance' = NextPinchReference(currentPinchDistance)
            /\ lastOp' = "pinch"
       ELSE /\ UNCHANGED <<hasPanned, viewVars, initialPinchDistance>>
            /\ lastOp' = "touchMove_noop"
    /\ UNCHANGED <<isDragging, panStart, pointer, pointerDown>>
    /\ UNCHANGED <<histVars, isLoading, error, hotspotVars, activeTab, prompt,
                   completedCrop, collageImages, isOnline, tutorialVars, maskVars,
                   pending>>
    /\ cropCanvas' = None

\* The finger at position k of the touch list is lifted.
handleTouchEnd(k) ==
    /\ EditorShown
    /\ k \in 1 .. Len(touches)
    /\ touches' = SubSeq(touches, 1, k - 1) \o SubSeq(touches, k + 1, Len(touches))
    /\ pointerDown' = (Len(touches') > 0)
    /\ isDragging' = FALSE
    /\ initialPinchDistance' = ZERO
    /\ lastOp' = "touchEnd"
    /\ UNCHANGED <<viewVars, panStart, hasPanned, pointer>>
    /\ UNCHANGED <<histVars, isLoading, error, hotspotVars, activeTab, prompt,
                   completedCrop, collageImages, isOnline, tutorialVars, maskVars,
                   pending>>
    /\ cropCanvas' = None

\* The only finger down is lifted at the end of a press that began on the crop
\* widget: the touchend reaches the container (handleTouchEnd) and the same
\* release ends the widget's drag, which reports the region through onComplete.
\* The widget took the press before isDragging could lock it: isDragging is
\* false whenever no finger is down.
CropTouchEnd(c) ==
    /\ EditorShown
    /\ activeTab = "crop"
    /\ ~isLoading
    /\ Len(touches) = 1
    /\ touches' = <<>>
    /\ pointerDown' = FALSE
    /\ isDragging' = FALSE
    /\ initialPinchDistance' = ZERO
    /\ completedCrop' = Some(c)
    /\ lastOp' = "cropTouchEnd"
    /\ UNCHANGED <<viewVars, panStart, hasPanned, pointer>>
    /\ UNCHANGED <<histVars, isLoading, error, hotspotVars, activeTab, prompt,
                   collageImages, isOnline, tutorialVars, maskVars, pending>>
    /\ cropCanvas' = None

\* --------------------------------------------------------------- hotspot
ElementPoint(p) == <<RDiv(R(p[1]), scale), RDiv(R(p[2]), scale)>>

NativePoint_Mutant(e) ==
    <<RRound(RMul(e[1], Norm(ImgDims.naturalWidth, ImgDims.clientWidth))),
      RRound(RMul(e[2], Norm(ImgDims.naturalWidth, ImgDims.clientWidth)))>>

NativePoint(e) ==
    <<RRound(RMul(e[1], Norm(ImgDims.naturalWidth, ImgDims.clientWidth))),
      RRound(RMul(e[2], Norm(ImgDims.naturalHeight, ImgDims.clientHeight)))>>

\* A click lands on the <img> when it is rendered with onClick (not the crop
\* or collage view), not covered by the mask canvas or the loading overlay,
\* and inside the image's bounding rectangle.
ImageClickable(p) ==
    /\ EditorShown
    /\ activeTab \notin {"crop", "collage"}
    /\ ~isHighlightingActive
    /\ ~isLoading
    /\ RLe(R(p[1]), RMul(R(ImgDims.clientWidth), scale))
    /\ RLe(R(p[2]), RMul(R(ImgDims.clientHeight), scale))

ClickIgnored_Mutant == activeTab # "retouch"

\* The early return of handleImageClick.
ClickIgnored == activeTab # "retouch" \/ hasPanned

handleImageClick(p) ==
    /\ ImageClickable(p)
    /\ IF ClickIgnored
       THEN UNCHANGED hotspotVars /\ lastOp' = "click_noop"
       ELSE /\ displayHotspot' = Some(ElementPoint(p))
            /\ editHotspot' = Some(NativePoint(ElementPoint(p)))
            /\ lastOp' = "click"
    /\ UNCHANGED <<histVars, isLoading, error, activeTab, prompt, completedCrop,
                   viewVars, collageImages, isOnline, tutorialVars, maskVars,
                   dragVars, pending>>
    /\ cropCanvas' = None

PromptInputEnabled == ~isLoading /\ editHotspot # None /\ isOnline

setPrompt(text) ==
    /\ EditorShown
    /\ activeTab = "retouch"
    /\ PromptInputEnabled
    /\ text # prompt
    /\ prompt' = text
    /\ lastOp' = "setPrompt"
    /\ UNCHANGED <<histVars, isLoading, error, hotspotVars, activeTab, completedCrop,
                   viewVars, collageImages, isOnline, tutorialVars, maskVars,
                   dragVars, pending>>
    /\ cropCanvas' = None

\* ------------------------------------------------------------------ mask
\* The mask canvas has the client size of the image (canvas.width =
\* image.clientWidth); a pixel is painted when its centre lies inside the shape.
CanvasPixels == (0 .. ImgDims.clientWidth - 1) \X (0 .. ImgDims.clientHeight - 1)

PixelCentre(q) == <<Norm(2 * q[1] + 1, 2), Norm(2 * q[2] + 1, 2)>>

\* Squared distance of two points with rational coordinates.
Dist2(a, b) ==
    RAdd(RMul(RSub(a[1], b[1]), RSub(a[1], b[1])),
         RMul(RSub(a[2], b[2]), RSub(a[2], b[2])))

Disc_Mutant(point, size) ==
    {q \in CanvasPixels : RLe(Dist2(PixelCentre(q), point), R(size * size))}

\* ctx.arc(point.x, point.y, brushSize / 2, 0, 2 * PI) filled.
Disc(point, size) ==
    {q \in CanvasPixels : RLe(Dist2(PixelCentre(q), point), <<size * size, 4>>)}

\* c lies within the distance whose square is r2 of the segment from a to b.
NearSegment(c, a, b, r2) ==
    LET dx == RSub(b[1], a[1])
        dy == RSub(b[2], a[2])
        vx == RSub(c[1], a[1])
        vy == RSub(c[2], a[2])
        t == RAdd(RMul(vx, dx), RMul(vy, dy))
        dd == RAdd(RMul(dx, dx), RMul(dy, dy))
        cross == RSub(RMul(vx, dy), RMul(vy, dx))
    IN  IF RLe(t, ZERO) THEN RLe(Dist2(c, a), r2)
        ELSE IF RLe(dd, t) THEN RLe(Dist2(c, b), r2)
        ELSE RLe(RMul(cross, cross), RMul(r2, dd))

\* moveTo(a), lineTo(b), stroke() with lineWidth = brushSize and round caps.
Stroke(a, b, size) ==
    {q \in CanvasPixels : NearSegment(PixelCentre(q), a, b, <<size * size, 4>>)}

\* Alpha of the brush's colours: strokeStyle 'rgba(255, 255, 0, 0.7)' of a
\* stroke in either mode, fillStyle 'rgba(0,0,0,1)' of an erasing tap.
StrokeAlpha == <<7, 10>>
EraseFillAlpha == ONE

Composite_Mutant(canvas, shape, mode, alpha) == canvas \cup shape

\* globalCompositeOperation: 'source-over' adds paint; 'destination-out'
\* multiplies the alpha of the paint under the shape by 1 - alpha, which
\* removes it when alpha is 1 and leaves the pixel painted (fainter) otherwise.
Composite(canvas, shape, mode, alpha) ==
    IF mode = "add" THEN canvas \cup shape
    ELSE IF alpha = ONE THEN canvas \ shape
    ELSE canvas

\* The mask canvas is rendered while highlighting is active, under the loading overlay.
CanvasUsable == EditorShown /\ isHighlightingActive /\ ~isLoading

\* The canvas lies in the transformed layer: its bounding rectangle starts at
\* the translation (the container's origin is the origin of the coordinates).
getPointOnCanvas(mouse) ==
    <<RSub(R(mouse[1]), translation[1]), RSub(R(mouse[2]), translation[2])>>

\* The cursor position lies inside the canvas's bounding rectangle.
OverCanvas(mouse) ==
    LET o == getPointOnCanvas(mouse)
    IN  /\ RLe(ZERO, o[1]) /\ RLe(o[1], RMul(R(ImgDims.clientWidth), scale))
        /\ RLe(ZERO, o[2]) /\ RLe(o[2], RMul(R(ImgDims.clientHeight), scale))

\* The primary button is pressed over the canvas (the event then reaches the
\* container's handleMouseDown, which returns at once while highlighting).
handleHighlightStart(mouse) ==
    /\ CanvasUsable
    /\ ~pointerDown
    /\ mouse = pointer
    /\ OverCanvas(mouse)
    /\ isHighlightingActive /\ ~isDragging
    /\ pointerDown' = TRUE
    /\ isDrawingHighlight' = TRUE
    /\ hasDraggedHighlight' = FALSE
    /\ lastHighlightPoint' = Some(getPointOnCanvas(mouse))
    /\ lastOp' = "highlightStart"
    /\ UNCHANGED <<histVars, isLoading, error, hotspotVars, activeTab, prompt,
                   completedCrop, viewVars, collageImages, isOnline, tutorialVars,
                   isHighlightingActive, cutoutMode, highlighterMask, maskCanvas,
                   highlighterBrushMode, highlighterBrushSize, isDragging, panStart,
                   hasPanned, pointer, touches, initialPinchDistance, pending>>
    /\ cropCanvas' = None

\* The cursor moves over the canvas, with the button held or not.
handleHighlightMove(mouse) ==
    /\ CanvasUsable
    /\ mouse # pointer
    /\ OverCanvas(mouse)
    /\ pointer' = mouse
    /\ IF ~isDrawingHighlight \/ ~isHighlightingActive
       THEN /\ UNCHANGED <<hasDraggedHighlight, maskCanvas, lastHighlightPoint>>
            /\ lastOp' = "highlightMove_noop"
       ELSE /\ hasDraggedHighlight' = TRUE
            /\ IF lastHighlightPoint # None
               THEN /\ maskCanvas' =
                          Composite(maskCanvas,
                                    Stroke(Val(lastHighlightPoint), getPointOnCanvas(mouse),
                                           highlighterBrushSize),
                                    highlighterBrushMode, StrokeAlpha)
                    /\ lastHighlightPoint' = Some(getPointOnCanvas(mouse))
               ELSE UNCHANGED <<maskCanvas, lastHighlightPoint>>
            /\ lastOp' = "highlightMove"
    /\ UNCHANGED <<histVars, isLoading, error, hotspotVars, activeTab, prompt,
                   completedCrop, viewVars, collageImages, isOnline, tutorialVars,
                   isHighlightingActive, cutoutMode, highlighterMask,
                   isDrawingHighlight, highlighterBrushMode, highlighterBrushSize,
                   isDragging, panStart, hasPanned, pointerDown, touches,
                   initialPinchDistance, pending>>
    /\ cropCanvas' = None

\* The image the canvas effect loads to redraw the saved mask, until its
\* onload runs.
RedrawOf(mask) == [Closure("redraw") EXCEPT !.highlighterMask = Some(mask)]

\* The button is released over the canvas (the container's handleMouseUp runs
\* on the same event). A new data URL in highlighterMask reruns the canvas
\* effect, which resets the canvas (canvas.width = ...) and loads the saved
\* mask to draw it again; loaded tells whether that image's onload runs
\* before the next event or is left pending.
handleHighlightEnd(loaded) ==
    /\ CanvasUsable
    /\ pointerDown
    /\ isDrawingHighlight
    /\ pointerDown' = FALSE
    /\ isDragging' = FALSE
    /\ LET drawn == IF ~hasDraggedHighlight /\ lastHighlightPoint # None
                     THEN Composite(maskCanvas,
                                    Disc(Val(lastHighlightPoint), highlighterBrushSize),
                                    highlighterBrushMode, EraseFillAlpha)
                     ELSE maskCanvas
       IN  /\ highlighterMask' = Some(drawn)
           /\ IF loaded \/ highlighterMask = Some(drawn)
              THEN maskCanvas' = drawn /\ UNCHANGED pending
              ELSE maskCanvas' = {} /\ pending' = pending \cup {RedrawOf(drawn)}
    /\ isDrawingHighlight' = FALSE
    /\ lastHighlightPoint' = None
    /\ lastOp' = IF hasDraggedHighlight THEN "highlightEnd" ELSE "highlightTap"
    /\ UNCHANGED <<histVars, isLoading, error, hotspotVars, activeTab, prompt,
                   completedCrop, viewVars, collageImages, isOnline, tutorialVars,
                   isHighlightingActive, cutoutMode, hasDraggedHighlight,
                   highlighterBrushMode, highlighterBrushSize, panStart, hasPanned,
                   pointer, touches, initialPinchDistance>>
    /\ cropCanvas' = None

\* img.onload of a pending redraw, between two gestures: the saved mask is
\* drawn over whatever the canvas holds now.
RedrawLoaded(r) ==
    /\ r \in pending
    /\ r.kind = "redraw"
    /\ ~isDrawingHighlight
    /\ pending' = pending \ {r}
    /\ maskCanvas' = IF isHighlightingActive
                     THEN maskCanvas \cup Val(r.highlighterMask)
                     ELSE maskCanvas
    /\ lastOp' = "redrawLoaded"
    /\ UNCHANGED <<histVars, isLoading, error, hotspotVars, activeTab, prompt,
                   completedCrop, viewVars, collageImages, isOnline, tutorialVars,
                   isHighlightingActive, cutoutMode, highlighterMask, drawVars,
                   highlighterBrushMode, dragVars>>
    /\ cropCanvas' = None

\* The cursor leaves the canvas with the button held and the button is
\* released elsewhere: handleCanvasMouseLeave hides the brush preview, the
\* container's handleMouseUp runs, no handler of the canvas sees the release.
ReleaseOutsideCanvas ==
    /\ CanvasUsable
    /\ pointerDown
    /\ pointerDown' = FALSE
    /\ isDragging' = FALSE
    /\ lastOp' = "releaseOutside"
    /\ UNCHANGED <<histVars, isLoading, error, hotspotVars, activeTab, prompt,
                   completedCrop, viewVars, collageImages, isOnline, tutorialVars,
                   maskVars, panStart, hasPanned, pointer, touches,
                   initialPinchDistance, pending>>
    /\ cropCanvas' = None

\* "Clear" of the manual cutout panel.
ClearHighlightEnabled == ~isLoading /\ isOnline /\ highlighterMask # None

handleClearHighlight ==
    /\ EditorShown
    /\ activeTab = "cutout"
    /\ cutoutMode = "manual"
    /\ ClearHighlightEnabled
    /\ maskCanvas' = {}
    /\ highlighterMask' = None
    /\ lastOp' = "clearHighlight"
    /\ UNCHANGED <<histVars, isLoading, error, hotspotVars, activeTab, prompt,
                   completedCrop, viewVars, collageImages, isOnline, tutorialVars,
                   isHighlightingActive, cutoutMode, drawVars, highlighterBrushMode,
                   dragVars, pending>>
    /\ cropCanvas' = None

BrushControlsEnabled == ~isLoading /\ isOnline

handleBrushModeChange(mode) ==
    /\ EditorShown
    /\ activeTab = "cutout"
    /\ cutoutMode = "manual"
    /\ BrushControlsEnabled
    /\ mode # highlighterBrushMode
    /\ highlighterBrushMode' = mode
    /\ lastOp' = "brushMode"
    /\ UNCHANGED <<histVars, isLoading, error, hotspotVars, activeTab, prompt,
                   completedCrop, viewVars, collageImages, isOnline, tutorialVars,
                   isHighlightingActive, cutoutMode, highlighterMask, maskCanvas,
                   drawVars, dragVars, pending>>
    /\ cropCanvas' = None

onSetBrushSize(size) ==
    /\ EditorShown
    /\ activeTab = "cutout"
    /\ cutoutMode = "manual"
    /\ BrushControlsEnabled
    /\ size # highlighterBrushSize
    /\ highlighterBrushSize' = size
    /\ lastOp' = "brushSize"
    /\ UNCHANGED <<histVars, isLoading, error, hotspotVars, activeTab, prompt,
                   completedCrop, viewVars, collageImages, isOnline, tutorialVars,
                   isHighlightingActive, cutoutMode, highlighterMask, maskCanvas,
                   isDrawingHighlight, lastHighlightPoint, hasDraggedHighlight,
                   highlighterBrushMode, dragVars, pending>>
    /\ cropCanvas' = None

\* CutoutPanel's mode buttons; the mode effect's cleanup calls
\* onToggleHighlight(false), its body onToggleHighlight(mode === 'manual') and
\* handleBrushModeChange('add').
setMode(mode) ==
    /\ CutoutMounted(currentImage, error, activeTab)
    /\ mode # cutoutMode
    /\ cutoutMode' = mode
    /\ isHighlightingActive' = (mode = "manual")
    /\ highlighterMask' = None
    /\ maskCanvas' = {}
    /\ highlighterBrushMode' = "add"
    /\ lastOp' = "setMode"
    /\ UNCHANGED <<histVars, isLoading, error, hotspotVars, activeTab, prompt,
                   completedCrop, viewVars, collageImages, isOnline, tutorialVars,
                   drawVars, dragVars, pending>>
    /\ cropCanvas' = None

\* --------------------------------------------------------------- collage
handleCollageImagesUpload ==
    /\ EditorShown
    /\ activeTab = "collage"
    /\ ~isLoading
    /\ collageImages < MaxCollage
    /\ collageImages' = collageImages + 1
    /\ lastOp' = "collageAdd"
    /\ UNCHANGED <<histVars, isLoading, error, hotspotVars, activeTab, prompt,
                   completedCrop, viewVars, isOnline, tutorialVars, maskVars,
                   dragVars, pending>>
    /\ cropCanvas' = None

\* ------------------------------------------------------------------ next
\* History steps: uploads and the tutorial's sample image, tabs, undo, redo,
\* reset, crop, the point edit and the panel edits with their results, wheel
\* zoom and the point-edit click.  The browser stays online and the cutout
\* panel's mask and the collage list are left alone.
Next ==
    \/ Upload
    \/ startTutorial
    \/ skipTutorial
    \/ \E tab \in Tabs : SetActiveTab(tab)
    \/ ClearError
    \/ handleUndo
    \/ handleRedo
    \/ handleReset
    \/ \E c \in CropRegions : SetCompletedCrop(c)
    \/ handleApplyCrop(ONE)
    \/ handleGenerate
    \/ handleApplyFilter
    \/ handleApplyAdjustment
    \/ handleAutoEnhance
    \/ handleCreateCutout
    \/ handleApplyManualEdit
    \/ handleApplyText
    \/ \E r \in pending : ResolveRequest(r)
    \/ \E r \in pending : RejectRequest(r)
    \/ zoomOps < MaxZoomOps /\ \E d \in WheelDeltas, m \in MousePoints : handleWheel(d, m)
    \/ \E p \in ClickPoints : handleImageClick(p)
    \/ \E t \in Prompts : setPrompt(t)
    \/ \E m \in {"manual", "prompt", "auto"} : setMode(m)

Spec == Init /\ [][Next]_vars

\* Request steps: every control that starts an image-transform request, in
\* every tab and panel, with what makes each of them available (the hotspot
\* and prompt, the collage list, the painted mask, the cutout panel's mode),
\* the results of the requests, uploads and the error panel.
NextGate ==
    \/ Upload
    \/ \E tab \in Tabs : SetActiveTab(tab)
    \/ ClearError
    \/ handleGenerate
    \/ handleApplyFilter
    \/ handleApplyAdjustment
    \/ handleAutoEnhance
    \/ handleCreateCollage
    \/ handleCreateCutout
    \/ handleApplyManualEdit
    \/ handleApplyText
    \/ handleCreateCutoutFromHighlight
    \/ \E r \in pending : ResolveRequest(r)
    \/ \E r \in pending : RejectRequest(r)
    \/ \E p \in ClickPoints : handleImageClick(p)
    \/ \E t \in Prompts : setPrompt(t)
    \/ \E m \in MousePoints : handleHighlightStart(m)
    \/ handleHighlightEnd(TRUE)
    \/ handleClearHighlight
    \/ \E m \in {"manual", "prompt", "auto"} : setMode(m)
    \/ handleCollageImagesUpload

SpecGate == Init /\ [][NextGate]_vars

\* A pending external call is settled: its promise resolves or rejects.
Settle == \E r \in pending : ResolveRequest(r) \/ RejectRequest(r)

\* Requests of every shape (point edit, filter, collage, cutout from the
\* painted mask) with what makes them available, their results, and what
\* can be done while a request is pending: tab switches, uploads, wheel zoom.
\* Every pending external call is eventually settled.
NextLoading ==
    \/ (history = <<>> \/ isLoading) /\ Upload
    \/ \E tab \in {"retouch", "filters", "collage", "cutout"} : SetActiveTab(tab)
    \/ ClearError
    \/ handleGenerate
    \/ handleApplyFilter
    \/ handleCreateCollage
    \/ handleCreateCutoutFromHighlight
    \/ Settle
    \/ isLoading /\ zoomOps < MaxZoomOps
          /\ \E d \in WheelDeltas, m \in MousePoints : handleWheel(d, m)
    \/ editHotspot = None /\ \E p \in ClickPoints : handleImageClick(p)
    \/ prompt = "" /\ \E t \in Prompts : setPrompt(t)
    \/ highlighterMask = None /\ \E m \in MousePoints : handleHighlightStart(m)
    \/ handleHighlightEnd(TRUE)
    \/ handleCollageImagesUpload

SpecLoading == Init /\ [][NextLoading]_vars /\ WF_vars(Settle)

\* Positions the active touches can move to.
TouchMoves ==
    {ts \in [1 .. Len(touches) -> TouchPoints] :
        \A a, b \in 1 .. Len(touches) : a # b => ts[a] # ts[b]}

\* Zoom steps on the first image loaded: wheel, zoom buttons, zoom reset and
\* the two-finger pinch (fingers put down, moved in pairs, lifted). The pinch
\* distance and centre do not depend on which finger is which, so the pair is
\* enumerated with the first finger to the left of the second.
NextView ==
    \/ history = <<>> /\ Upload
    \/ zoomOps < MaxViewOps /\ \E d \in ViewWheelDeltas, m \in ViewMousePoints : handleWheel(d, m)
    \/ zoomOps < MaxViewOps /\ handleZoomIn
    \/ zoomOps < MaxViewOps /\ handleZoomOut
    \/ ResetZoomClick
    \/ \E p \in TouchPoints :
          /\ IF Len(touches) = 0 THEN TRUE ELSE p[1] > touches[1][1]
          /\ handleTouchStart(p)
    \/ zoomOps < MaxViewOps /\ Len(touches) = 2
          /\ \E ts \in TouchMoves : ts[1][1] < ts[2][1] /\ handleTouchMove(ts)
    \/ \E k \in 1 .. 2 : handleTouchEnd(k)

SpecView == Init /\ [][NextView]_vars

\* Pan steps on the first image loaded: the mouse drag, with wheel zoom.
NextPan ==
    \/ history = <<>> /\ Upload
    \/ \E m \in ViewMousePoints : handleMouseDown(m)
    \/ zoomOps < MaxViewOps /\ \E m \in ViewMousePoints : handleMouseMove(m)
    \/ handleMouseUp
    \/ zoomOps < MaxViewOps /\ \E d \in ViewWheelDeltas, m \in ViewMousePoints : handleWheel(d, m)
    \/ ResetZoomClick

SpecPan == Init /\ [][NextPan]_vars

\* Point-edit steps on the first image loaded: clicks on the image at the
\* scales that wheel zooms (at the cursor) and the zoom reset produce.
NextClick ==
    \/ history = <<>> /\ Upload
    \/ \E m \in ViewMousePoints : handleMouseMove(m)
    \/ zoomOps < MaxViewOps /\ \E d \in ViewWheelDeltas, m \in ViewMousePoints : handleWheel(d, m)
    \/ ResetZoomClick
    \/ \E p \in EdgeClickPoints : handleImageClick(p)

SpecClick == Init /\ [][NextClick]_vars

\* Crop steps: a region is selected in the crop tab and applied, on displays
\* of different pixel ratios, with undo, redo and reset of the crops.
NextCrop ==
    \/ Upload
    \/ \E tab \in {"retouch", "crop"} : SetActiveTab(tab)
    \/ \E c \in ExportCropRegions : SetCompletedCrop(c)
    \/ \E dpr \in DevicePixelRatios : handleApplyCrop(dpr)
    \/ handleUndo
    \/ handleRedo
    \/ handleReset

SpecCrop == Init /\ [][NextCrop]_vars

\* Touch steps: fingers put down, moved and lifted on the image container.
NextTouch ==
    \/ history = <<>> /\ Upload
    \/ \E p \in TouchPoints : handleTouchStart(p)
    \/ zoomOps < MaxViewOps /\ \E ts \in TouchMoves : handleTouchMove(ts)
    \/ \E k \in 1 .. 2 : handleTouchEnd(k)

SpecTouch == Init /\ [][NextTouch]_vars

\* Brush steps on the first image loaded, at scale 1: the cutout tab opens the
\* manual mask, the brush is set up, strokes and taps are made with the mouse
\* (released over the canvas or outside it), the mask is cleared or sent to
\* the highlight cutout.
NextMask ==
    \/ history = <<>> /\ Upload
    \/ \E tab \in {"retouch", "cutout"} : SetActiveTab(tab)
    \/ \E m \in BrushPoints : handleHighlightStart(m)
    \/ \E m \in BrushPoints : handleHighlightMove(m)
    \/ handleHighlightEnd(TRUE)
    \/ ReleaseOutsideCanvas
    \/ \E mode \in {"add", "erase"} : handleBrushModeChange(mode)
    \/ \E size \in BrushSizes : onSetBrushSize(size)
    \/ handleClearHighlight
    \/ handleCreateCutoutFromHighlight

SpecMask == Init /\ [][NextMask]_vars

\* Brush steps on a zoomed image: the wheel zooms in the retouch tab, then the
\* mask is painted in the cutout tab with the default brush.
NextMaskZoom ==
    \/ history = <<>> /\ Upload
    \/ \E tab \in {"retouch", "cutout"} : SetActiveTab(tab)
    \/ zoomOps < MaxZoomOps /\ \E d \in ViewWheelDeltas, m \in BrushPoints : handleWheel(d, m)
    \/ \E m \in BrushPoints : handleHighlightStart(m)
    \/ \E m \in BrushPoints : handleHighlightMove(m)
    \/ handleHighlightEnd(TRUE)

SpecMaskZoom == Init /\ [][NextMaskZoom]_vars

\* Pointer steps in every mode: the mouse drag, touches and the brush, in the
\* retouch, collage and cutout tabs, on an uploaded image or on the sample
\* image of the running tutorial.  Tabs are switched between gestures, one
\* device is used at a time and two fingers are enumerated with the first to
\* the left.
NextModes ==
    \/ history = <<>> /\ Upload
    \/ history = <<>> /\ startTutorial
    \/ ~pointerDown /\ \E tab \in {"retouch", "collage", "cutout"} : SetActiveTab(tab)
    \/ Len(touches) = 0 /\ \E m \in ViewMousePoints : handleMouseDown(m)
    \/ zoomOps < MaxZoomOps /\ \E m \in ViewMousePoints : handleMouseMove(m)
    \/ handleMouseUp
    \/ \E p \in TouchPoints :
          /\ IF Len(touches) = 0 THEN ~pointerDown ELSE p[1] > touches[1][1]
          /\ handleTouchStart(p)
    \/ zoomOps < MaxZoomOps /\ \E ts \in TouchMoves :
          /\ IF Len(ts) = 2 THEN ts[1][1] < ts[2][1] ELSE TRUE
          /\ handleTouchMove(ts)
    \/ \E k \in 1 .. 2 : handleTouchEnd(k)
    \/ Len(touches) = 0 /\ \E m \in ViewMousePoints : handleHighlightStart(m)
    \/ \E m \in ViewMousePoints : handleHighlightMove(m)
    \/ handleHighlightEnd(TRUE)

SpecModes == Init /\ [][NextModes]_vars

\* One pointer stream at a time in the retouch, crop and cutout tabs: a finger
\* put down, moved and lifted on the container or on the crop widget, or the
\* mouse pressed, moved and released on the container or on the mask canvas.
NextStream ==
    \/ history = <<>> /\ Upload
    \/ ~pointerDown /\ \E tab \in {"retouch", "crop", "cutout"} : SetActiveTab(tab)
    \/ ~pointerDown /\ \E p \in TouchPoints : handleTouchStart(p)
    \/ zoomOps < MaxZoomOps /\ \E ts \in TouchMoves : handleTouchMove(ts)
    \/ handleTouchEnd(1)
    \/ \E c \in CropRegions : CropTouchEnd(c)
    \/ ~pointerDown /\ \E m \in ViewMousePoints : handleMouseDown(m)
    \/ zoomOps < MaxZoomOps /\ \E m \in ViewMousePoints : handleMouseMove(m)
    \/ handleMouseUp
    \/ Len(touches) = 0 /\ \E m \in ViewMousePoints : handleHighlightStart(m)
    \/ \E m \in ViewMousePoints : handleHighlightMove(m)
    \/ handleHighlightEnd(TRUE)

SpecStream == Init /\ [][NextStream]_vars

\* Taps on the mask canvas in the cutout tab, with the brush mode and size
\* controls and Clear, where the image that redraws the saved mask may load
\* after later events (one image loading at a time).
NextRedraw ==
    \/ history = <<>> /\ Upload
    \/ SetActiveTab("cutout")
    \/ \E m \in BrushPoints : handleHighlightStart(m)
    \/ \E loaded \in BOOLEAN : (loaded \/ pending = {}) /\ handleHighlightEnd(loaded)
    \/ \E r \in pending : RedrawLoaded(r)
    \/ \E mode \in {"add", "erase"} : handleBrushModeChange(mode)
    \/ \E size \in BrushSizes : onSetBrushSize(size)
    \/ handleClearHighlight

SpecRedraw == Init /\ [][NextRedraw]_vars

\* ================================================================ claims
\* A step in which a version was appended (an edit result or a crop).
AppendStep == lastOp' \in {"resolve", "crop"}

\* C1: once the first image is loaded the history is never empty and
\* 0 <= historyIndex < history.length, whatever the interleaving of uploads,
\* appends, undo, redo, reset and late edit results.
C1_HistoryInRange ==
    IF nextId = 0
    THEN history = <<>>
    ELSE Len(history) > 0 /\ historyIndex >= 0 /\ historyIndex < Len(history)

\* An edit result that resolved after an upload made while it was in flight.
C1_Witness ==
    /\ lastOp = "resolve"
    /\ history = <<1, 3>>
    /\ historyIndex = 1

\* C2 (as claimed): a result whose originating image is no longer the current
\* image is discarded, leaving history and historyIndex as they were.
C2_StaleResultDiscarded ==
    [][\A r \in pending :
          (r \notin pending' /\ lastOp' = "resolve" /\ r.image # currentImage)
              => (history' = history /\ historyIndex' = historyIndex)]_vars

\* C3 (as claimed): an append at index k leaves length k + 2, index k + 1 and
\* the entries 0..k as they were just before the append.
C3_AppendTruncates ==
    [][AppendStep =>
          /\ Len(history') = historyIndex + 2
          /\ historyIndex' = historyIndex + 1
          /\ SubSeq(history', 1, historyIndex + 1) = SubSeq(history, 1, historyIndex + 1)]_vars

\* C4: right after an append the current image is the version just appended
\* (the File created last).
C4_CurrentIsAppended ==
    lastOp \in {"resolve", "crop"} => currentImage = Some(nextId)

\* An append made after an undo, on a history that had a later version.
C4_Witness ==
    /\ lastOp \in {"resolve", "crop"}
    /\ history = <<1, 3>>
    /\ historyIndex = 1
    /\ pending = {}

\* C5: undo and redo move the index by exactly one and leave the sequence
\* (length and contents) alone.
C5_UndoRedoRepoint ==
    [][/\ lastOp' = "undo" => (history' = history /\ historyIndex' = historyIndex - 1)
       /\ lastOp' = "redo" => (history' = history /\ historyIndex' = historyIndex + 1)]_vars

\* A redo back to the last of three versions.
C5_Witness ==
    /\ lastOp = "redo"
    /\ Len(history) = 3
    /\ historyIndex = 2

\* C6: the Undo button is enabled only when historyIndex > 0, the Redo button
\* only when historyIndex < length - 1, and a run of either handler outside
\* those conditions changes neither history, index, hotspot nor viewport.
C6_NoMovePastEnds ==
    /\ [](UndoEnabled => historyIndex > 0)
    /\ [](RedoEnabled => historyIndex < Len(history) - 1)
    /\ [][(lastOp' \in {"undo", "undo_noop"} /\ ~(historyIndex > 0))
             => UNCHANGED <<history, historyIndex, editHotspot, displayHotspot,
                            scale, translation>>]_vars
    /\ [][(lastOp' \in {"redo", "redo_noop"} /\ ~(historyIndex < Len(history) - 1))
             => UNCHANGED <<history, historyIndex, editHotspot, displayHotspot,
                            scale, translation>>]_vars

\* handleUndo ran at index 0 with a hotspot set and a zoomed viewport.
C6_Witness ==
    /\ lastOp = "undo_noop"
    /\ historyIndex = 0
    /\ editHotspot # None
    /\ scale # ONE

\* C7: reset moves the index to 0 and leaves the sequence alone, so that redo
\* is available again whenever later versions exist.
C7_ResetKeepsHistory ==
    [][lastOp' = "reset" =>
          /\ history' = history
          /\ historyIndex' = 0
          /\ (Len(history') > 1 => RedoEnabled')]_vars

\* A reset from the last of three versions.
C7_Witness ==
    /\ lastOp = "reset"
    /\ Len(history) = 3
    /\ historyIndex = 0

\* C8 (as claimed): after a failed request an error is set and history and
\* historyIndex are what they were when the request was issued.
C8_FailureRestoresIssueState ==
    [][\A r \in pending :
          (r \notin pending' /\ lastOp' = "reject")
              => /\ error' # NoError
                 /\ history' = r.history
                 /\ historyIndex' = r.historyIndex]_vars

\* C8 (amended): a failed request sets an error and appends nothing: history
\* and historyIndex are what they were just before the failure was handled,
\* and are the values of the time the request was issued whenever the image
\* the request was issued for is still the current one.
C8_FailureLeavesHistory ==
    [][\A r \in pending :
          (r \notin pending' /\ lastOp' = "reject")
              => /\ error' # NoError
                 /\ history' = history
                 /\ historyIndex' = historyIndex
                 /\ nextId' = nextId
                 /\ (r.image = currentImage
                        => history' = r.history /\ historyIndex' = r.historyIndex)]_vars

\* A request failed while the cutout tab was shown, after an earlier result
\* had been appended.
C8_Witness ==
    /\ lastOp = "reject"
    /\ error # NoError
    /\ activeTab = "cutout"
    /\ Len(history) = 2

\* C9: at most one transform request is in flight, and while isLoading is true
\* no control that starts a transform request is enabled.
RequestControlEnabled ==
    \/ GenerateEnabled
    \/ FilterEnabled
    \/ AdjustmentEnabled
    \/ AutoEnhanceEnabled
    \/ CollageEnabled
    \/ CutoutEnabled
    \/ ManualEditEnabled
    \/ TextEnabled
    \/ CutoutFromHighlightEnabled

C9_SingleFlight ==
    /\ Cardinality(pending) <= 1
    /\ pending # {} => isLoading
    /\ isLoading => ~RequestControlEnabled

\* A request is in flight and the user has moved to another panel.
C9_Witness ==
    /\ Cardinality(pending) = 1
    /\ isLoading
    /\ lastOp = "setActiveTab"
    /\ activeTab = "filters"

\* C10: a step that changes the current image leaves the viewport at scale 1
\* and translation (0, 0).
C10_ViewportResetOnImageChange ==
    [][currentImage' # currentImage =>
          (scale' = ONE /\ translation' = <<ZERO, ZERO>>)]_vars

\* An undo just changed the current image and the viewport is the default one.
C10_Witness ==
    /\ lastOp = "undo"
    /\ scale = ONE
    /\ translation = <<ZERO, ZERO>>
    /\ Len(history) = 2

\* A step that changed the history: an append, an undo, a redo or a reset.
HistoryChangeStep == lastOp' \in {"resolve", "crop", "undo", "redo", "reset"}

\* C11 (as claimed): after every successful append, by any kind of edit, and
\* after every undo, redo or reset, editHotspot is null.
C11_HotspotClearedOnHistoryChange ==
    [][HistoryChangeStep => editHotspot' = None]_vars

\* A step that changed the underlying image or left the manual-mask mode.
MaskResetStep ==
    \/ lastOp' \in {"resolve", "crop", "undo", "redo", "reset", "upload", "startTutorial"}
    \/ isHighlightingActive /\ ~isHighlightingActive'

\* C12 (as claimed): when the manual-mask mode is left, and after every append,
\* undo, redo, reset or upload made while a mask exists, the mask canvas is
\* empty and highlighterMask is null.
C12_MaskClearedOnImageChange ==
    [][(MaskResetStep /\ (highlighterMask # None \/ maskCanvas # {}))
          => (highlighterMask' = None /\ maskCanvas' = {})]_vars

\* C13 (as claimed): a rejected request leaves the viewport and the mask (the
\* painted canvas and highlighterMask) as they were.
C13_RejectKeepsViewportAndMask ==
    [][lastOp' = "reject"
          => UNCHANGED <<scale, translation, highlighterMask, maskCanvas>>]_vars

\* C14: after any sequence of wheel zooms, pinch zooms, zoom-button clicks and
\* zoom resets the scale lies in [0.5, 5].
C14_ScaleInRange == RLe(<<1, 2>>, scale) /\ RLe(scale, <<5, 1>>)

\* Zoom In was clicked with the scale already at 5 (after a wheel zoom).
C14_Witness ==
    /\ lastOp = "zoomIn"
    /\ scale = <<5, 1>>
    /\ zoomOps = 2

\* A step that zoomed, and the anchor of its zoom: the cursor for the wheel,
\* the container centre for the buttons, the touch midpoint for a pinch.
ZoomStepTaken == lastOp' \in {"wheel", "zoomIn", "zoomOut", "pinch"}
ZoomAnchor ==
    IF lastOp' = "wheel" THEN <<R(pointer'[1]), R(pointer'[2])>>
    ELSE IF lastOp' = "pinch" THEN TouchCenter(touches')
    ELSE <<Norm(ContainerSize.width, 2), Norm(ContainerSize.height, 2)>>

\* The image point shown at viewport position a: (a - translation) / scale.
ImagePointAt(a, t, s) == <<RDiv(RSub(a[1], t[1]), s), RDiv(RSub(a[2], t[2]), s)>>

\* C15: every zoom step keeps the image point under its anchor where it was,
\* also when the new scale was clamped.
C15_AnchorFixed ==
    [][ZoomStepTaken =>
          ImagePointAt(ZoomAnchor, translation', scale')
              = ImagePointAt(ZoomAnchor, translation, scale)]_vars

\* A pinch that was clamped at the maximum scale, after an earlier wheel zoom.
C15_Witness ==
    /\ lastOp = "pinch"
    /\ scale = MaxScale
    /\ zoomOps = 2
    /\ translation # <<ZERO, ZERO>>

\* C16 (as claimed): each pointer move of a drag adds the pointer's
\* displacement since the previous pointer event to the translation, also
\* when a zoom changed the translation in between.
C16_PanAddsDelta ==
    [][lastOp' = "mouseMove" =>
          translation' = <<RAdd(translation[1], R(pointer'[1] - pointer[1])),
                           RAdd(translation[2], R(pointer'[2] - pointer[2]))>>]_vars

\* C17 (as claimed): a move of a single active touch pans by the touch's
\* displacement, whether the touch is the first one put down or the one left
\* after a pinch; a move of two touches does not pan (the image point under
\* their midpoint stays where it was).
C17_TouchGestures ==
    /\ [][(lastOp' \in {"touchPan", "touchMove_noop"} /\ Len(touches) = 1) =>
             translation' = <<RAdd(translation[1], R(touches'[1][1] - touches[1][1])),
                              RAdd(translation[2], R(touches'[1][2] - touches[1][2]))>>]_vars
    /\ [][(lastOp' \in {"pinch", "touchMove_noop"} /\ Len(touches) = 2) =>
             ImagePointAt(TouchCenter(touches'), translation', scale')
                 = ImagePointAt(TouchCenter(touches'), translation, scale)]_vars

\* h is the integer nearest to the rational v (a half rounds up).
IsNearest(h, v) ==
    /\ h \in Int
    /\ RLe(RSub(R(h), <<1, 2>>), v)
    /\ ~RLe(RAdd(R(h), <<1, 2>>), v)

\* C18: a point-edit click at offset p sets the hotspot to the integers nearest
\* to (ex * naturalWidth / clientWidth, ey * naturalHeight / clientHeight),
\* where (ex, ey) is p divided by the current scale.
C18_HotspotMapping ==
    [][lastOp' = "click" =>
          \E p \in EdgeClickPoints :
              LET ex == RDiv(R(p[1]), scale)
                  ey == RDiv(R(p[2]), scale)
                  h == Val(editHotspot')
              IN  /\ displayHotspot' = Some(<<ex, ey>>)
                  /\ IsNearest(h[1], RDiv(RMul(ex, R(ImgDims.naturalWidth)),
                                          R(ImgDims.clientWidth)))
                  /\ IsNearest(h[2], RDiv(RMul(ey, R(ImgDims.naturalHeight)),
                                          R(ImgDims.clientHeight)))]_vars

\* A click at (2, 1) on the image zoomed to scale 5: element point (2/5, 1/5),
\* native point (0.8, 0.6), hotspot (1, 1).
C18_Witness ==
    /\ lastOp = "click"
    /\ scale = <<5, 1>>
    /\ displayHotspot = Some(<<(<<2, 5>>), (<<1, 5>>)>>)
    /\ editHotspot = Some(<<1, 1>>)

\* C19 (as claimed): the hotspot lies inside the native image:
\* 0 <= x <= naturalWidth - 1 and 0 <= y <= naturalHeight - 1.
C19_HotspotInBounds ==
    editHotspot # None =>
        /\ Val(editHotspot)[1] >= 0
        /\ Val(editHotspot)[1] <= ImgDims.naturalWidth - 1
        /\ Val(editHotspot)[2] >= 0
        /\ Val(editHotspot)[2] <= ImgDims.naturalHeight - 1

\* The source rectangle of the export: the crop region scaled by
\* naturalWidth / displayed width and naturalHeight / displayed height.
CropSourceAsClaimed(e) ==
    LET sx == Norm(ImgDims.naturalWidth, ImgDims.clientWidth)
        sy == Norm(ImgDims.naturalHeight, ImgDims.clientHeight)
    IN  /\ e.sx = RMul(R(e.crop.x), sx)
        /\ e.sy = RMul(R(e.crop.y), sy)
        /\ e.sWidth = RMul(R(e.crop.width), sx)
        /\ e.sHeight = RMul(R(e.crop.height), sy)

\* C20 (as claimed): the export canvas of a crop (x, y, w, h) measures
\* (w * devicePixelRatio) x (h * devicePixelRatio) pixels and is drawn from
\* the native rectangle (x * sx, y * sy, w * sx, h * sy).
C20_CropExportExact ==
    cropCanvas # None =>
        LET e == Val(cropCanvas)
        IN  /\ R(e.width) = RMul(R(e.crop.width), e.pixelRatio)
            /\ R(e.height) = RMul(R(e.crop.height), e.pixelRatio)
            /\ CropSourceAsClaimed(e)

\* n is the whole part of the non-negative rational v.
IsWholePart(n, v) == RLe(R(n), v) /\ ~RLe(R(n + 1), v)

\* C20 (amended): the export canvas measures the whole parts of
\* w * devicePixelRatio and h * devicePixelRatio (the products themselves
\* when they are whole numbers) and is drawn from the native rectangle
\* (x * sx, y * sy, w * sx, h * sy).
C20_CropExportWholePixels ==
    cropCanvas # None =>
        LET e == Val(cropCanvas)
        IN  /\ IsWholePart(e.width, RMul(R(e.crop.width), e.pixelRatio))
            /\ IsWholePart(e.height, RMul(R(e.crop.height), e.pixelRatio))
            /\ CropSourceAsClaimed(e)

\* The crop (1, 1, 2, 1) exported at pixel ratio 3/2: a 3 x 1 canvas drawn
\* from the native rectangle (2, 3, 4, 3).
C20_Witness ==
    /\ lastOp = "crop"
    /\ cropCanvas # None
    /\ Val(cropCanvas).pixelRatio = <<3, 2>>
    /\ Val(cropCanvas).crop = [x |-> 1, y |-> 1, width |-> 2, height |-> 1]
    /\ Val(cropCanvas).width = 3
    /\ Val(cropCanvas).height = 1
    /\ Val(cropCanvas).sx = R(2)
    /\ Val(cropCanvas).sy = R(3)

\* A step after which the claimed crop region is gone: a crop was applied, the
\* crop tab was left, or undo, redo or reset changed the current image.
CropConsumedStep ==
    \/ lastOp' \in {"crop", "undo", "redo", "reset"}
    \/ activeTab = "crop" /\ activeTab' # "crop"

\* C21 (as claimed): after a crop is applied, after the crop tab is left and
\* after undo, redo or reset changed the current image, no completed crop
\* region remains.
C21_CropRegionConsumed ==
    [][CropConsumedStep => completedCrop' = None]_vars

\* C22 (as claimed): the compositor starts drawing only on a pointer-down made
\* while the manual-mask mode is active, every release of the pointer leaves
\* it idle, and it is never drawing while no pointer is down.
C22_DrawingOnlyWhilePointerDown ==
    [][/\ (~isDrawingHighlight /\ isDrawingHighlight')
              => (pointerDown' /\ ~pointerDown /\ isHighlightingActive)
       /\ (pointerDown /\ ~pointerDown') => ~isDrawingHighlight'
       /\ isDrawingHighlight' => pointerDown']_vars

\* The canvas pixels (by their centres) of the filled circle of diameter
\* size centred at p: 4 * distance^2 <= size^2.
CircleAt(p, size) ==
    {q \in CanvasPixels : RLe(RMul(R(4), Dist2(PixelCentre(q), p)), R(size * size))}

\* The canvas pixels of the line from a to b drawn size wide with round ends:
\* those of the circles at a and at b, and those that project between a and b
\* and lie within size / 2 of the line.
LineFromTo(a, b, size) ==
    CircleAt(a, size) \cup CircleAt(b, size) \cup
    {q \in CanvasPixels :
        LET c == PixelCentre(q)
            along == RAdd(RMul(RSub(c[1], a[1]), RSub(b[1], a[1])),
                          RMul(RSub(c[2], a[2]), RSub(b[2], a[2])))
            across == RSub(RMul(RSub(c[1], a[1]), RSub(b[2], a[2])),
                           RMul(RSub(c[2], a[2]), RSub(b[1], a[1])))
            len2 == Dist2(a, b)
        IN  /\ RLe(ZERO, along) /\ RLe(along, len2)
            /\ RLe(RMul(R(4), RMul(across, across)), RMul(R(size * size), len2))}

\* after is the mask before with the shape painted on it in the add mode;
\* in the erase mode only pixels of the shape have lost paint, and after a tap
\* all of them.
PaintedWith(before, after, shape, mode, tap) ==
    IF mode = "add" THEN after = before \cup shape
    ELSE /\ after \subseteq before
         /\ before \ shape \subseteq after
         /\ tap => after = before \ shape

C23_StrokeReached ==
    /\ lastOp = "highlightMove"
    /\ highlighterBrushSize = 2
    /\ pointer = <<2, 1>>
    /\ maskCanvas = {<<0, 0>>, <<1, 0>>, <<2, 0>>, <<0, 1>>, <<1, 1>>, <<2, 1>>}

\* C24 (as claimed): the point recorded for a press or a move of the brush is
\* the pointer's offset inside the canvas divided by the current scale, the
\* canvas point under the pointer.
C24_BrushPointUnderPointer ==
    [][lastOp' \in {"highlightStart", "highlightMove"} =>
          Val(lastHighlightPoint')
              = ImagePointAt(<<R(pointer'[1]), R(pointer'[2])>>, translation, scale)]_vars

\* A step in which the brush touched the mask: a move of a stroke or a tap.
BrushStep == lastOp' \in {"highlightMove", "highlightTap"}

BoundingBox(pixels) ==
    LET xs == {q[1] : q \in pixels}
        ys == {q[2] : q \in pixels}
    IN  [left |-> CHOOSE x \in xs : \A z \in xs : x <= z,
         right |-> (CHOOSE x \in xs : \A z \in xs : x >= z) + 1,
         top |-> CHOOSE y \in ys : \A z \in ys : y <= z,
         bottom |-> (CHOOSE y \in ys : \A z \in ys : y >= z) + 1]

\* Box b is box a scaled by naturalWidth / clientWidth horizontally and by
\* naturalHeight / clientHeight vertically.
ScaledToNatural(a, b) ==
    /\ b.left * ImgDims.clientWidth = a.left * ImgDims.naturalWidth
    /\ b.right * ImgDims.clientWidth = a.right * ImgDims.naturalWidth
    /\ b.top * ImgDims.clientHeight = a.top * ImgDims.naturalHeight
    /\ b.bottom * ImgDims.clientHeight = a.bottom * ImgDims.naturalHeight

\* C26: the mask sent with a highlight cutout is a raster of naturalWidth x
\* naturalHeight pixels whose painted pixels have the bounding box of the
\* displayed mask's painted pixels scaled by naturalWidth / clientWidth and
\* naturalHeight / clientHeight (and none when the displayed mask has none).
C26_MaskExportScaled ==
    \A r \in pending :
        r.finalMask # None =>
            LET e == Val(r.finalMask)
                m == Val(r.highlighterMask)
            IN  /\ e.width = ImgDims.naturalWidth
                /\ e.height = ImgDims.naturalHeight
                /\ e.pixels \subseteq (0 .. e.width - 1) \X (0 .. e.height - 1)
                /\ (m = {}) = (e.pixels = {})
                /\ m # {} => ScaledToNatural(BoundingBox(m), BoundingBox(e.pixels))

\* The mask of a tap at (1, 1) with brush size 2 (displayed box 0..2 x 0..2)
\* was exported: the painted box of the export is 0..4 x 0..6.
C26_Witness ==
    \E r \in pending :
        /\ r.finalMask # None
        /\ r.highlighterMask = Some({<<0, 0>>, <<1, 0>>, <<0, 1>>, <<1, 1>>})
        /\ Val(r.finalMask).pixels = (0 .. 3) \X (0 .. 5)

\* A step in which a pointer moved: the mouse over the container or over the
\* mask canvas, or the active touches.
MoveStep ==
    lastOp' \in {"mouseMove", "mouseMove_noop", "touchPan", "pinch", "touchMove_noop",
                 "highlightMove", "highlightMove_noop"}

\* The manual-mask mode, the collage tab or the tutorial is active.
PanModeOff == isHighlightingActive \/ activeTab = "collage" \/ isTutorialActive

\* A move made while the compositor is not drawing or the manual-mask mode is
\* inactive leaves the mask as it was.
MaskMoveNoOp ==
    (MoveStep /\ (~isDrawingHighlight \/ ~isHighlightingActive))
        => UNCHANGED <<maskCanvas, highlighterMask>>

\* C27 (as claimed): a move made while no pan drag is active, or while the
\* manual-mask mode, the collage tab or the tutorial is active, leaves scale
\* and translation unchanged; a move made while the compositor is not drawing
\* or the manual-mask mode is inactive leaves the mask unchanged.
C27_MovesNoOpWithoutDrag ==
    [][/\ (MoveStep /\ (~isDragging \/ PanModeOff)) => UNCHANGED <<scale, translation>>
       /\ MaskMoveNoOp]_vars

\* Two touches are down with a pinch under way.
PinchActive == Len(touches) = 2 /\ ~RLe(initialPinchDistance, ZERO)

\* C27 (amended): a move made while neither a pan drag nor a two-finger pinch
\* is active, or while the manual-mask mode, the collage tab or the tutorial
\* is active, leaves scale and translation unchanged; a move made while the
\* compositor is not drawing or the manual-mask mode is inactive leaves the
\* mask unchanged.
C27_MovesNoOpWithoutGesture ==
    [][/\ (MoveStep /\ ((~isDragging /\ ~PinchActive) \/ PanModeOff))
              => UNCHANGED <<scale, translation>>
       /\ MaskMoveNoOp]_vars

\* Two fingers moved apart in the collage tab and the move changed nothing.
C27_Witness ==
    /\ lastOp = "touchMove_noop"
    /\ Len(touches) = 2
    /\ activeTab = "collage"
    /\ PinchDistance(touches) = R(10)

\* C28: a pointer stream is interpreted by at most one of the crop tool, the
\* mask compositor and pan/zoom: a drag that edits the crop region has not
\* panned the viewport, and while a pointer is down in the manual-mask mode no
\* step changes scale or translation.
C28_ModeExclusivity ==
    [][/\ (lastOp' = "cropTouchEnd" /\ completedCrop' # completedCrop) => ~hasPanned
       /\ (isHighlightingActive /\ pointerDown) => UNCHANGED <<scale, translation>>]_vars

\* -------------------------------------------------------- rendered frames
\* What the editor shows of a given image URL and of the state a step leaves.
Frame(url) ==
    [currentImageUrl |-> url,
     scale           |-> scale',
     translation     |-> translation',
     maskCanvas      |-> maskCanvas',
     highlighterMask |-> highlighterMask']

\* The commit that renders a handler's state updates. currentImageUrl is a
\* state of its own, set by an effect that runs after this commit: the image
\* element still has the URL made for the image that was current before.
CommitBeforeUrlEffect == Frame(currentImage)

\* The commit that follows the effect's setCurrentImageUrl.
CommitAfterUrlEffect == Frame(currentImage')

\* A step that appends to the history or moves within it (an upload replaces
\* the history instead), after which the editor shows another entry.
HistoryMutationStep ==
    /\ history' = history \/ Len(history') >= 2
    /\ currentImage # None
    /\ currentImage' # None
    /\ currentImage' # currentImage
    /\ error' = NoError

\* C29: a history mutation is observed atomically: no frame rendered for it
\* shows the previous image with a viewport other than the previous one, nor
\* the new image with a viewport that is not reset or a mask that is not
\* cleared.
C29_HistoryMutationAtomic ==
    [][HistoryMutationStep =>
          \A f \in {CommitBeforeUrlEffect, CommitAfterUrlEffect} :
              /\ f.currentImageUrl = currentImage
                    => f.scale = scale /\ f.translation = translation
              /\ f.currentImageUrl = currentImage'
                    => /\ f.scale = ONE
                       /\ f.translation = <<ZERO, ZERO>>
                       /\ f.maskCanvas = {}
                       /\ f.highlighterMask = None]_vars

\* C30: on every pinch move the scale is multiplied by the distance between
\* the two touches now divided by their distance at the preceding event of the
\* gesture (the preceding move, or the pinch start for the first move), and
\* the stored reference distance becomes the distance now.
C30_PinchFactorFromPreviousMove ==
    [][lastOp' = "pinch" =>
          /\ scale' = Clamp(RMul(scale, RDiv(PinchDistance(touches'),
                                              PinchDistance(touches))))
          /\ initialPinchDistance' = PinchDistance(touches')]_vars

\* Two pinch moves in a row: fingers 5 apart spread to 10 (scale 2), then
\* closed to 5 again, which halves the scale back to 1 about another centre.
C30_Witness ==
    /\ lastOp = "pinch"
    /\ zoomOps = 2
    /\ touches = <<<<0, 0>>, <<3, 4>>>>
    /\ initialPinchDistance = R(5)
    /\ scale = ONE
    /\ translation = <<<<-3, 4>>, <<-1, 1>>>>

\* C31: between two uploads the version at index 0 is never replaced or
\* removed: every step other than an upload (or the tutorial's sample upload)
\* taken with a loaded history keeps the first entry.
C31_OriginalKept ==
    [][(history # <<>> /\ lastOp' \notin {"upload", "startTutorial"})
          => (history' # <<>> /\ history'[1] = history[1])]_vars

\* C32: every started transform request eventually clears the loading gate:
\* with every pending call settled sooner or later, a state in which isLoading
\* is true is followed by one in which it is false, whichever handler started
\* the request and whatever was done while it was pending; and the step that
\* settles a call always leaves isLoading false.
C32_LoadingEventuallyCleared ==
    /\ isLoading ~> ~isLoading
    /\ [][lastOp' \in {"resolve", "reject"} => ~isLoading']_vars

\* A result arrived after an upload was made while its request was pending
\* (the history is the one the request captured plus the result), and the
\* gate is clear.
C32_Witness ==
    /\ lastOp = "resolve"
    /\ history = <<1, 3>>
    /\ ~isLoading

\* C33: the cutout-from-highlight action is available (highlighterMask is
\* non-null) only when the saved mask has at least one painted pixel.
C33_ReadyOnlyWhenPainted ==
    IF highlighterMask = None THEN TRUE ELSE Val(highlighterMask) # {}

\* C34: a redraw of a saved mask that completes late never puts old paint
\* back: the paint it adds to the canvas belongs to the mask saved now, so
\* once the mask is cleared (nothing saved) it adds nothing.
C34_LateRedrawAddsNoOldPaint ==
    [][lastOp' = "redrawLoaded" =>
          (maskCanvas' \ maskCanvas) \subseteq
              (IF highlighterMask = None THEN {} ELSE Val(highlighterMask))]_vars

\* ------------------------------------------------------------- the tour
\* The overlay covers the page while the tour runs, so tabs are switched by
\* the user only outside it.
NextTutorial ==
    \/ history = <<>> /\ Upload
    \/ startTutorial
    \/ skipTutorial
    \/ handleNextStep
    \/ handlePrevStep
    \/ ~isTutorialActive /\ \E tab \in Tabs : SetActiveTab(tab)

SpecTutorial == Init /\ [][NextTutorial]_vars

\* C35: while the tour is active tutorialStepIndex stays within
\* 0 .. tutorialSteps.length - 1 for every sequence of Next and Previous, and
\* Previous moves to the step before.
C35_StepIndexInRange ==
    [][/\ isTutorialActive' =>
            (tutorialStepIndex' >= 0 /\ tutorialStepIndex' <= Len(tutorialSteps) - 1)
       /\ lastOp' = "prevStep" => tutorialStepIndex' = tutorialStepIndex - 1]_vars

\* ------------------------------------------------- clicks after gestures
\* Mouse and touch gestures on the image followed by clicks: a click is
\* delivered after the button or the finger has been released.
NextHotspot ==
    \/ history = <<>> /\ Upload
    \/ ~pointerDown /\ \E tab \in {"retouch", "adjust"} : SetActiveTab(tab)
    \/ Len(touches) = 0 /\ \E m \in ViewMousePoints : handleMouseDown(m)
    \/ zoomOps < MaxZoomOps /\ \E m \in ViewMousePoints : handleMouseMove(m)
    \/ handleMouseUp
    \/ \E p \in TouchPoints :
          /\ IF Len(touches) = 0 THEN ~pointerDown ELSE p[1] > touches[1][1]
          /\ handleTouchStart(p)
    \/ zoomOps < MaxZoomOps /\ \E ts \in TouchMoves :
          /\ IF Len(ts) = 2 THEN ts[1][1] < ts[2][1] ELSE TRUE
          /\ handleTouchMove(ts)
    \/ \E k \in 1 .. 2 : handleTouchEnd(k)
    \/ ~pointerDown /\ \E p \in ClickPoints : handleImageClick(p)

SpecHotspot == Init /\ [][NextHotspot]_vars

\* C36: a click sets the hotspot only in the retouch tab and only when no pan
\* movement happened between the preceding pointer-down and the click
\* (hasPanned is raised by every pan or pinch move and lowered only by a
\* pointer-down); a click that ends a pan or pinch, or a click in any other
\* tab, leaves both hotspots unchanged.
C36_ClickAfterPanKeepsHotspot ==
    [][/\ lastOp' \in {"mouseMove", "touchPan", "pinch"} => hasPanned'
       /\ (hasPanned /\ ~hasPanned') => lastOp' \in {"mouseDown", "touchStart"}
       /\ (lastOp' \in {"click", "click_noop"} /\ (activeTab # "retouch" \/ hasPanned))
             => UNCHANGED hotspotVars
       /\ hotspotVars' # hotspotVars
             => (lastOp' = "click" /\ activeTab = "retouch" /\ ~hasPanned)]_vars

C36_Witness ==
    /\ lastOp = "click_noop"
    /\ activeTab = "retouch"
    /\ hasPanned
    /\ editHotspot # None

\* --------------------------------------------- the two hotspots together
\* The <img> made from an export canvas: its natural size is the canvas size;
\* "w-full h-auto max-h-[60vh]" keeps the element's width and caps its height.
CroppedDims(canvas) ==
    [naturalWidth |-> R(canvas.width),
     naturalHeight |-> R(canvas.height),
     clientWidth |-> R(ImgDims.clientWidth),
     clientHeight |-> RMin(R(ImgDims.clientHeight),
                           RDiv(RMul(R(ImgDims.clientWidth), R(canvas.height)),
                                R(canvas.width)))]

\* Sizes of the image on screen: the export canvas right after a crop; every
\* other version is taken to have the size of the upload.
ShownDims ==
    IF cropCanvas # None THEN CroppedDims(Val(cropCanvas))
    ELSE [naturalWidth |-> R(ImgDims.naturalWidth),
          naturalHeight |-> R(ImgDims.naturalHeight),
          clientWidth |-> R(ImgDims.clientWidth),
          clientHeight |-> R(ImgDims.clientHeight)]

\* originalX, originalY of handleImageClick for an element of sizes dims.
NativeImage(dims, e) ==
    <<RRound(RMul(e[1], RDiv(dims.naturalWidth, dims.clientWidth))),
      RRound(RMul(e[2], RDiv(dims.naturalHeight, dims.clientHeight)))>>

\* C37: editHotspot and displayHotspot are either both null or both set, and
\* when set editHotspot is the rounded native-scale image of displayHotspot on
\* the image shown.
C37_HotspotsConsistent ==
    /\ (editHotspot = None) <=> (displayHotspot = None)
    /\ IF editHotspot = None \/ displayHotspot = None THEN TRUE
       ELSE Val(editHotspot) = NativeImage(ShownDims, Val(displayHotspot))

\* --------------------------------------------- the guards of handleGenerate
PromptTexts == {"", " ", "p", " p "}

NextGenerate ==
    \/ history = <<>> /\ Upload
    \/ ClearError
    \/ \E p \in ClickPoints : handleImageClick(p)
    \/ \E t \in PromptTexts : setPrompt(t)
    \/ zoomOps < MaxZoomOps /\ \E d \in WheelDeltas, m \in MousePoints : handleWheel(d, m)
    \/ handleGenerate
    \/ handleGenerateUnguarded
    \/ Settle

SpecGenerate == Init /\ [][NextGenerate]_vars

PointEditAllowed == currentImage # None /\ Trim(prompt) # "" /\ editHotspot # None

\* C38: a point edit is requested only when an image is loaded, the prompt is
\* non-blank and a hotspot is set; otherwise handleGenerate sets an error,
\* sends no request, does not set isLoading and leaves history, hotspot and
\* viewport unchanged.
C38_GenerateGuards ==
    [][/\ lastOp' = "start" => (PointEditAllowed /\ pending' # {} /\ isLoading')
       /\ (lastOp' \in {"start", "generateRefused"} /\ ~PointEditAllowed)
             => /\ error' # NoError
                /\ pending' = pending
                /\ isLoading' = isLoading
                /\ UNCHANGED <<history, historyIndex, hotspotVars, scale, translation>>]_vars

C38_Witness ==
    /\ lastOp = "generateRefused"
    /\ currentImage # None
    /\ editHotspot # None
    /\ prompt = " "
    /\ error = "Please enter a description for your edit."
    /\ ~isLoading
    /\ pending = {}
    /\ zoomOps = 1

\* C39: a zoom step whose result is clamped to the scale it started from
\* (zooming in at scale 5 or out at scale 0.5) leaves scale and translation
\* both unchanged.
C39_ClampedZoomIsNoOp ==
    [][(lastOp' \in {"wheel", "zoomIn", "zoomOut", "pinch"} /\ scale' = scale)
         => translation' = translation]_vars

C39_Witness ==
    /\ lastOp = "zoomOut"
    /\ scale = MinScale
    /\ zoomOps = 2
    /\ translation = <<R(1), <<1, 2>>>>

====
